---- MODULE Spec2Model ----
(***************************************************************************)
(* Session-token algebra, container session store and session registry of *)
(* azure_data_cosmos (sdk/cosmos/azure_data_cosmos/src/session), the query *)
(* pipeline of its query engine tests (tests/mock_engine) and the stream   *)
(* of its query engine (src/query_engine.old.rs).                          *)
(*                                                                         *)
(* Specifications: SpecAlgebra, SpecOrder and SpecGrouping (merge and      *)
(* can_advance_to on two and three tokens), SpecParse, SpecContainer,      *)
(* SpecLock (threads on one container session), SpecSession, SpecRegistry  *)
(* and SpecRegistryFair (threads on one registry), SpecPipeline, SpecStray *)
(* and SpecBatch (the pipeline, also with data it refuses and with any     *)
(* buffers), SpecDriven and SpecDrivenFair (the pipeline with its driver), *)
(* SpecEngine (the stream of the query engine).                            *)
(*                                                                         *)
(* Texts are sequences of one-character strings, so that parsing and       *)
(* formatting are computed character by character as in the source.        *)
(* Results are records: [ok |-> TRUE, val |-> v] or                        *)
(* [ok |-> FALSE, err |-> kind, detail |-> payload].                       *)
(***************************************************************************)
EXTENDS Integers, Sequences, FiniteSets, TLC

VARIABLES
    \* token algebra (vector.rs): two tokens and the results of the operations
    token1, token2, merged1, merged2, can_advance, dominates1, dominates2, alg_pc,
    \* parsing and formatting (vector.rs): a text and what becomes of it
    text, token, regenerated, reparsed, parse_pc,
    \* container session (container.rs): the store and the last call on it
    \* prev_tokens is the store as it was when the last call began
    partition_tokens, prev_tokens, last_call, last_result,
    \* threads sharing one container session (container.rs): the RwLock around
    \* the store, each thread's call and position in it, and the store as it was
    \* when the write lock was last released
    lock, threads, committed,
    \* session registry (session.rs): the container sessions by container id and
    \* the last call on the registry; prev_sessions is the registry as it was
    \* when the last call began
    container_sessions, prev_sessions, session_call, session_result,
    \* query pipeline (tests/mock_engine): the fields of the pipeline, the last
    \* call on it with its result, the pipeline as it was when that call began
    \* (prev_pipeline) and, when the call before it was a next_batch too, the
    \* result of that call (prev_batch); and its surroundings: the pages the
    \* server holds, the requests not answered yet, the items emitted so far and
    \* the number of pages fetched
    partition_states, completed, pipeline_call, pipeline_result, prev_pipeline,
    prev_batch, server, pending, emitted, fetches,
    \* query engine (query_engine.old.rs): the state of the stream, the position
    \* inside the poll under way, the elements yielded so far, the numbers of
    \* pipeline steps and of requests sent, the partition requests of the current
    \* batch not issued yet, and the counts as they were when the first error
    \* was yielded; then the requests of the last NeedsMoreData result, the
    \* headers of the requests sent for them and the calls of enqueue_data made
    \* since, the response being handled, and the numbers of query plans
    \* fetched, of partition key range lists fetched and of pipelines built
    engine_state, engine_pc, yielded, steps, sends, to_issue, first_error,
    requested, sent, enqueued, response, plans, ranges, pipelines,
    \* order of the tokens (vector.rs): three tokens, the results of
    \* can_advance_to between them and the results of merging them in the two
    \* groupings
    token_a, token_b, token_c, advance, grouped, order_pc,
    \* threads sharing one session registry (session.rs): the registry, the
    \* RwLock around it, the RwLock of each container session in it, each
    \* thread's call and position in it, and the registry as it was before the
    \* threads began
    shared_sessions, sessions_lock, container_locks, callers, sessions_at_start

alg_vars == <<token1, token2, merged1, merged2, can_advance, dominates1, dominates2, alg_pc>>
parse_vars == <<text, token, regenerated, reparsed, parse_pc>>
container_vars == <<partition_tokens, prev_tokens, last_call, last_result>>
lock_vars == <<lock, threads, committed>>
session_vars == <<container_sessions, prev_sessions, session_call, session_result>>
pipeline_vars == <<partition_states, completed, pipeline_call, pipeline_result,
                   prev_pipeline, prev_batch, server, pending, emitted, fetches>>
engine_vars == <<engine_state, engine_pc, yielded, steps, sends, to_issue, first_error,
                 requested, sent, enqueued, response, plans, ranges, pipelines>>
order_vars == <<token_a, token_b, token_c, advance, grouped, order_pc>>
registry_vars == <<shared_sessions, sessions_lock, container_locks, callers, sessions_at_start>>
vars == <<alg_vars, parse_vars, container_vars, lock_vars, session_vars, pipeline_vars,
          engine_vars, order_vars, registry_vars>>

\* the variables each specification leaves alone
beside_alg == <<parse_vars, container_vars, lock_vars, session_vars, pipeline_vars,
    engine_vars, order_vars, registry_vars>>
beside_parse == <<alg_vars, container_vars, lock_vars, session_vars, pipeline_vars,
    engine_vars, order_vars, registry_vars>>
beside_container == <<alg_vars, parse_vars, lock_vars, session_vars, pipeline_vars,
    engine_vars, order_vars, registry_vars>>
beside_lock == <<alg_vars, parse_vars, prev_tokens, last_call, last_result, session_vars, pipeline_vars,
    engine_vars, order_vars, registry_vars>>
beside_session == <<alg_vars, parse_vars, container_vars, lock_vars, pipeline_vars,
    engine_vars, order_vars, registry_vars>>
beside_pipeline == <<alg_vars, parse_vars, container_vars, lock_vars, session_vars,
    engine_vars, order_vars, registry_vars>>
beside_engine == <<alg_vars, parse_vars, container_vars, lock_vars, session_vars,
    pipeline_vars, order_vars, registry_vars>>
beside_order == <<alg_vars, parse_vars, container_vars, lock_vars, session_vars,
    pipeline_vars, engine_vars, registry_vars>>
beside_registry == <<alg_vars, parse_vars, container_vars, lock_vars, session_vars,
    pipeline_vars, engine_vars, order_vars>>

(***************************************************************************)
(* Bounds of the model.                                                    *)
(***************************************************************************)
MaxVersion == 2       \* versions 1..MaxVersion in the algebra specification
MaxLsn == 2           \* LSNs 1..MaxLsn in the algebra specification
MaxRegion == 2        \* region ids 1..MaxRegion in the algebra specification
MaxU64 == 255         \* largest value of the model's u64 (scaled down from 2^64-1)
MaxU32 == 15          \* largest value of the model's u32 (scaled down from 2^32-1)
MaxComponents == 2    \* regional components in a generated vector token text
MaxSegments == 2      \* comma-separated segments in a generated container token text
NumThreads == 2       \* threads sharing one container session
NumItems == 3         \* items the server holds, with the merge orders 1..NumItems
MaxPages == 2         \* pages the server cuts a partition's items into
MaxFetches == 4       \* pages fetched in a run of SpecPipeline
MaxYielded == 3       \* elements the query engine's stream yields in a run
MaxSteps == 4         \* calls of step_pipeline in a run of the query engine
MaxRequests == 2      \* partition requests in one NeedsMoreData result
MaxBuffered == 2      \* items, and merge orders, of a buffer when next_batch is called alone

(***************************************************************************)
(* Results and options.                                                    *)
(***************************************************************************)
Ok(v) == [ok |-> TRUE, val |-> v]
Err(kind, payload) == [ok |-> FALSE, err |-> kind, detail |-> payload]
NotRun == [ok |-> FALSE, err |-> "NotRun", detail |-> <<>>]
None == [some |-> FALSE]
Some(v) == [some |-> TRUE, val |-> v]

Max(x, y) == IF x >= y THEN x ELSE y

(***************************************************************************)
(* Characters.                                                             *)
(***************************************************************************)
Digits == {"0", "1", "2", "3", "4", "5", "6", "7", "8", "9"}

DigitVal(c) ==
    CASE c = "0" -> 0 [] c = "1" -> 1 [] c = "2" -> 2 [] c = "3" -> 3 [] c = "4" -> 4
      [] c = "5" -> 5 [] c = "6" -> 6 [] c = "7" -> 7 [] c = "8" -> 8 [] c = "9" -> 9

DigitChar(d) ==
    CASE d = 0 -> "0" [] d = 1 -> "1" [] d = 2 -> "2" [] d = 3 -> "3" [] d = 4 -> "4"
      [] d = 5 -> "5" [] d = 6 -> "6" [] d = 7 -> "7" [] d = 8 -> "8" [] d = 9 -> "9"

\* byte value of a character (the order String::cmp compares by)
Byte(c) ==
    CASE c = " " -> 32 [] c = "#" -> 35 [] c = "," -> 44 [] c = ":" -> 58
      [] c = "=" -> 61 [] c = "x" -> 120 [] OTHER -> 48 + DigitVal(c)

\* position of the first c in s at or after position from, 0 when there is none
RECURSIVE Find(_, _, _)
Find(s, c, from) ==
    IF from > Len(s) THEN 0
    ELSE IF s[from] = c THEN from
    ELSE Find(s, c, from + 1)

(***************************************************************************)
(* vector.rs: manual numeric parsing.                                      *)
(***************************************************************************)
\* an accumulation that wraps around at the width of the integer
RECURSIVE ParseDigitsWrapping(_, _, _, _)
ParseDigitsWrapping(s, i, result, max) ==
    IF i > Len(s) THEN Ok(result)
    ELSE IF s[i] \notin Digits THEN Err("NotANumber", s)
    ELSE ParseDigitsWrapping(s, i + 1, (result * 10 + DigitVal(s[i])) % (max + 1), max)

RECURSIVE ParseDigits(_, _, _, _)
ParseDigits(s, i, result, max) ==
    IF i > Len(s) THEN Ok(result)
    ELSE IF s[i] \notin Digits THEN Err("NotANumber", s)
    ELSE IF result * 10 > max THEN Err("NotANumber", s)                  \* checked_mul
    ELSE IF result * 10 + DigitVal(s[i]) > max THEN Err("NotANumber", s) \* checked_add
    ELSE ParseDigits(s, i + 1, result * 10 + DigitVal(s[i]), max)

parse_u64_from_slice(s) ==
    IF s = <<>> THEN Err("NotANumber", s) ELSE ParseDigits(s, 1, 0, MaxU64)

parse_u32_from_slice(s) ==
    IF s = <<>> THEN Err("NotANumber", s) ELSE ParseDigits(s, 1, 0, MaxU32)

(***************************************************************************)
(* vector.rs: VectorSessionToken, a record                                 *)
(* [version, global_lsn, regional_lsns], regional_lsns a function from the *)
(* region ids it holds to their LSNs.                                      *)
(***************************************************************************)
VectorSessionToken(version, global_lsn, regional_lsns) ==
    [version |-> version, global_lsn |-> global_lsn, regional_lsns |-> regional_lsns]

EmptyMap == [r \in {} |-> 0]

\* an insert that keeps the value of an existing key
InsertIfAbsent(map, key, value) ==
    [k \in DOMAIN map \cup {key} |-> IF k \in DOMAIN map THEN map[k] ELSE value]

\* HashMap::insert: the value of an existing key is replaced
Insert(map, key, value) ==
    [k \in DOMAIN map \cup {key} |-> IF k = key THEN value ELSE map[k]]

\* the loop over the regional components of from_str, from position current_pos
RECURSIVE ParseRegionalComponents(_, _, _)
ParseRegionalComponents(s, current_pos, regional_lsns) ==
    IF current_pos > Len(s) THEN Ok(regional_lsns)
    ELSE
        LET hash == Find(s, "#", current_pos)
            component_end == IF hash = 0 THEN Len(s) + 1 ELSE hash
            component == SubSeq(s, current_pos, component_end - 1)
            equals_pos == Find(component, "=", 1)
            region_id_str == SubSeq(component, 1, equals_pos - 1)
            region_lsn_str == SubSeq(component, equals_pos + 1, Len(component))
            region_id == parse_u32_from_slice(region_id_str)
            region_lsn == parse_u64_from_slice(region_lsn_str)
        IN  IF equals_pos = 0 THEN Err("MalformedRegionalComponent", component)
            ELSE IF region_id_str = <<>> \/ region_lsn_str = <<>>
                THEN Err("MalformedRegionalComponent", component)
            ELSE IF ~region_id.ok THEN Err("InvalidRegionId", region_id_str)
            ELSE IF ~region_lsn.ok THEN Err("InvalidRegionLsn", region_lsn_str)
            ELSE ParseRegionalComponents(s, component_end + 1,
                                         Insert(regional_lsns, region_id.val, region_lsn.val))

\* impl FromStr for VectorSessionToken
VectorFromStr(s) ==
    IF s = <<>> THEN Err("EmptyInput", <<>>)
    ELSE
        LET version_end == Find(s, "#", 1)
            version_str == SubSeq(s, 1, version_end - 1)
            version == parse_u64_from_slice(version_str)
            global_lsn_start == version_end + 1
            hash == Find(s, "#", global_lsn_start)
            global_lsn_end == IF hash = 0 THEN Len(s) + 1 ELSE hash
            global_lsn_str == SubSeq(s, global_lsn_start, global_lsn_end - 1)
            global_lsn == parse_u64_from_slice(global_lsn_str)
            regional_lsns == ParseRegionalComponents(s, global_lsn_end + 1, EmptyMap)
        IN  IF version_end = 0 THEN Err("MissingComponents", <<>>)
            ELSE IF ~version.ok THEN Err("InvalidVersion", version_str)
            ELSE IF global_lsn_start > Len(s) THEN Err("MissingComponents", <<>>)
            ELSE IF ~global_lsn.ok THEN Err("InvalidGlobalLsn", global_lsn_str)
            ELSE IF ~regional_lsns.ok THEN regional_lsns
            ELSE Ok(VectorSessionToken(version.val, global_lsn.val, regional_lsns.val))

\* Display of an unsigned integer: decimal digits, no leading zeros
RECURSIVE FormatNum(_)
FormatNum(n) ==
    IF n < 10 THEN <<DigitChar(n)>> ELSE FormatNum(n \div 10) \o <<DigitChar(n % 10)>>

\* the iteration orders a HashMap with key set S can have
Orders(S) ==
    {o \in [1..Cardinality(S) -> S] : \A i, j \in 1..Cardinality(S) : o[i] = o[j] => i = j}

\* the swapped form of one regional component: "#<lsn>=<id>"
FormatRegionSwapped(region_id, region_lsn) ==
    <<"#">> \o FormatNum(region_lsn) \o <<"=">> \o FormatNum(region_id)

\* one regional component as Display writes it: "#<id>=<lsn>"
FormatRegion(region_id, region_lsn) ==
    <<"#">> \o FormatNum(region_id) \o <<"=">> \o FormatNum(region_lsn)

RECURSIVE FormatRegions(_, _, _)
FormatRegions(regional_lsns, order, i) ==
    IF i > Len(order) THEN <<>>
    ELSE FormatRegion(order[i], regional_lsns[order[i]])
            \o FormatRegions(regional_lsns, order, i + 1)

\* impl Display for VectorSessionToken; order is the order in which the HashMap
\* iterates its keys, which the language leaves unspecified
VectorToString(t, order) ==
    FormatNum(t.version) \o <<"#">> \o FormatNum(t.global_lsn)
        \o FormatRegions(t.regional_lsns, order, 1)

\* every text Display can write for t
VectorTexts(t) == {VectorToString(t, o) : o \in Orders(DOMAIN t.regional_lsns)}

(***************************************************************************)
(* vector.rs: VectorSessionToken::merge.                                   *)
(***************************************************************************)
\* merge without the ordering step: self is always taken as the base
MergeSelfIsBase(self, other) ==
    IF self.version = other.version
    THEN IF DOMAIN self.regional_lsns # DOMAIN other.regional_lsns
         THEN Err("TokensCannotBeMerged", <<>>)
         ELSE Ok(VectorSessionToken(
                self.version,
                Max(self.global_lsn, other.global_lsn),
                [r \in DOMAIN self.regional_lsns |->
                    Max(self.regional_lsns[r], other.regional_lsns[r])]))
    ELSE Ok(VectorSessionToken(
            self.version,
            self.global_lsn,
            [r \in DOMAIN self.regional_lsns |->
                IF r \in DOMAIN other.regional_lsns
                THEN Max(self.regional_lsns[r], other.regional_lsns[r])
                ELSE self.regional_lsns[r]]))

\* merge that keeps the higher-version token's components instead of the maxima
MergeKeepsHigher(self, other) ==
    LET higher_version_token == IF self.version >= other.version THEN self ELSE other
        lower_version_token == IF self.version >= other.version THEN other ELSE self
    IN  IF higher_version_token.version = lower_version_token.version
            /\ DOMAIN higher_version_token.regional_lsns
                    # DOMAIN lower_version_token.regional_lsns
        THEN Err("TokensCannotBeMerged", <<>>)
        ELSE Ok(higher_version_token)

\* merge whose equal-version branch takes the maximum of the global LSNs but keeps
\* the regional LSNs of the base token
MergeMaxGlobalOnly(self, other) ==
    LET higher_version_token == IF self.version >= other.version THEN self ELSE other
        lower_version_token == IF self.version >= other.version THEN other ELSE self
        self_regions == DOMAIN higher_version_token.regional_lsns
        other_regions == DOMAIN lower_version_token.regional_lsns
    IN  IF higher_version_token.version = lower_version_token.version
        THEN IF self_regions # other_regions
             THEN Err("TokensCannotBeMerged", <<>>)
             ELSE Ok(VectorSessionToken(
                    higher_version_token.version,
                    Max(higher_version_token.global_lsn, lower_version_token.global_lsn),
                    higher_version_token.regional_lsns))
        ELSE Ok(VectorSessionToken(
                higher_version_token.version,
                higher_version_token.global_lsn,
                [region_id \in self_regions |->
                    IF region_id \in other_regions
                    THEN Max(higher_version_token.regional_lsns[region_id],
                             lower_version_token.regional_lsns[region_id])
                    ELSE higher_version_token.regional_lsns[region_id]]))

\* merge that compares the number of regions instead of the region key-sets, and
\* keeps the base token's LSN for a region the other token lacks
MergeComparesRegionCount(self, other) ==
    LET higher_version_token == IF self.version >= other.version THEN self ELSE other
        lower_version_token == IF self.version >= other.version THEN other ELSE self
        self_regions == DOMAIN higher_version_token.regional_lsns
        other_regions == DOMAIN lower_version_token.regional_lsns
    IN  IF higher_version_token.version = lower_version_token.version
            /\ Cardinality(self_regions) # Cardinality(other_regions)
        THEN Err("TokensCannotBeMerged", <<>>)
        ELSE Ok(VectorSessionToken(
                higher_version_token.version,
                IF higher_version_token.version = lower_version_token.version
                THEN Max(higher_version_token.global_lsn, lower_version_token.global_lsn)
                ELSE higher_version_token.global_lsn,
                [r \in self_regions |->
                    IF r \in other_regions
                    THEN Max(higher_version_token.regional_lsns[r],
                             lower_version_token.regional_lsns[r])
                    ELSE higher_version_token.regional_lsns[r]]))

\* merge whose different-version branch also takes the maximum of the global LSNs
\* and keeps the regions of both tokens
MergeUnionOfProgress(self, other) ==
    LET higher_version_token == IF self.version >= other.version THEN self ELSE other
        lower_version_token == IF self.version >= other.version THEN other ELSE self
        self_regions == DOMAIN higher_version_token.regional_lsns
        other_regions == DOMAIN lower_version_token.regional_lsns
    IN  IF higher_version_token.version = lower_version_token.version
            /\ self_regions # other_regions
        THEN Err("TokensCannotBeMerged", <<>>)
        ELSE Ok(VectorSessionToken(
                higher_version_token.version,
                Max(higher_version_token.global_lsn, lower_version_token.global_lsn),
                [r \in self_regions \cup other_regions |->
                    IF r \notin other_regions THEN higher_version_token.regional_lsns[r]
                    ELSE IF r \notin self_regions THEN lower_version_token.regional_lsns[r]
                    ELSE Max(higher_version_token.regional_lsns[r],
                             lower_version_token.regional_lsns[r])]))

\* VectorSessionToken::merge
Merge(self, other) ==
    LET higher_version_token == IF self.version >= other.version THEN self ELSE other
        lower_version_token == IF self.version >= other.version THEN other ELSE self
        self_regions == DOMAIN higher_version_token.regional_lsns
        other_regions == DOMAIN lower_version_token.regional_lsns
    IN  IF higher_version_token.version = lower_version_token.version
        THEN IF self_regions # other_regions
             THEN Err("TokensCannotBeMerged", <<>>)
             ELSE Ok(VectorSessionToken(
                    higher_version_token.version,
                    Max(higher_version_token.global_lsn, lower_version_token.global_lsn),
                    [region_id \in self_regions |->
                        Max(higher_version_token.regional_lsns[region_id],
                            lower_version_token.regional_lsns[region_id])]))
        ELSE Ok(VectorSessionToken(
                higher_version_token.version,
                higher_version_token.global_lsn,
                [region_id \in self_regions |->
                    IF region_id \in other_regions
                    THEN Max(higher_version_token.regional_lsns[region_id],
                             lower_version_token.regional_lsns[region_id])
                    ELSE higher_version_token.regional_lsns[region_id]]))

(***************************************************************************)
(* VectorSessionToken::can_advance_to.  The method is called by the tests  *)
(* of vector.rs (lines 425-511) but its body is not part of the source at  *)
(* hand; it is modelled from section 4.1 of the specification.             *)
(***************************************************************************)
\* can_advance_to that compares the global LSN only
CanAdvanceToGlobalOnly(current, other) ==
    IF other.version > current.version THEN Ok(TRUE)
    ELSE IF other.version < current.version THEN Ok(FALSE)
    ELSE IF DOMAIN current.regional_lsns # DOMAIN other.regional_lsns
        THEN Err("InvalidRegions", <<current, other>>)
    ELSE Ok(other.global_lsn >= current.global_lsn)

\* can_advance_to that validates the region key-sets before looking at the versions
CanAdvanceToRegionsFirst(current, other) ==
    IF DOMAIN current.regional_lsns # DOMAIN other.regional_lsns
        THEN Err("InvalidRegions", <<current, other>>)
    ELSE IF other.version > current.version THEN Ok(TRUE)
    ELSE IF other.version < current.version THEN Ok(FALSE)
    ELSE Ok(/\ other.global_lsn >= current.global_lsn
            /\ \A r \in DOMAIN current.regional_lsns :
                    other.regional_lsns[r] >= current.regional_lsns[r])

\* a can_advance_to that asks for a higher global LSN
CanAdvanceToStrict(current, other) ==
    IF other.version > current.version THEN Ok(TRUE)
    ELSE IF other.version < current.version THEN Ok(FALSE)
    ELSE IF DOMAIN current.regional_lsns # DOMAIN other.regional_lsns
        THEN Err("InvalidRegions", <<current, other>>)
    ELSE Ok(/\ other.global_lsn > current.global_lsn
            /\ \A r \in DOMAIN current.regional_lsns :
                    other.regional_lsns[r] >= current.regional_lsns[r])

CanAdvanceTo(current, other) ==
    IF other.version > current.version THEN Ok(TRUE)
    ELSE IF other.version < current.version THEN Ok(FALSE)
    ELSE IF DOMAIN current.regional_lsns # DOMAIN other.regional_lsns
        THEN Err("InvalidRegions", <<current, other>>)
    ELSE Ok(/\ other.global_lsn >= current.global_lsn
            /\ \A r \in DOMAIN current.regional_lsns :
                    other.regional_lsns[r] >= current.regional_lsns[r])

(***************************************************************************)
(* partition.rs: PartitionSessionToken, a record [pkrange_id, vector_token]*)
(***************************************************************************)
\* impl FromStr for PartitionSessionToken
PartitionFromStr(s) ==
    IF s = <<>> THEN Err("EmptyInput", <<>>)
    ELSE
        LET colon_pos == Find(s, ":", 1)
            pkrange_part == SubSeq(s, 1, colon_pos - 1)
            vector_part == SubSeq(s, colon_pos + 1, Len(s))
            vector_token == VectorFromStr(vector_part)
        IN  IF colon_pos = 0 THEN Err("MissingComponents", <<>>)
            ELSE IF colon_pos = 1 THEN Err("MissingComponents", <<>>)
            ELSE IF vector_part = <<>> THEN Err("MissingComponents", <<>>)
            ELSE IF ~vector_token.ok THEN vector_token
            ELSE Ok([pkrange_id |-> pkrange_part, vector_token |-> vector_token.val])

\* impl Display for PartitionSessionToken; order as in VectorToString
PartitionToString(t, order) ==
    t.pkrange_id \o <<":">> \o VectorToString(t.vector_token, order)

\* every text Display can write for t
PartitionTexts(t) ==
    {PartitionToString(t, o) : o \in Orders(DOMAIN t.vector_token.regional_lsns)}

(***************************************************************************)
(* Text helpers of the standard library used by container.rs.              *)
(***************************************************************************)
\* str::split(','): the pieces between the separators, empty pieces included
RECURSIVE Split(_, _, _)
Split(s, sep, from) ==
    LET pos == Find(s, sep, from)
    IN  IF pos = 0 THEN <<SubSeq(s, from, Len(s))>>
        ELSE <<SubSeq(s, from, pos - 1)>> \o Split(s, sep, pos + 1)

\* a trim that removes the whitespace at the start only
RECURSIVE TrimStart(_)
TrimStart(s) == IF s # <<>> /\ Head(s) = " " THEN TrimStart(Tail(s)) ELSE s

\* str::trim: whitespace removed at both ends
RECURSIVE Trim(_)
Trim(s) ==
    IF s = <<>> THEN s
    ELSE IF Head(s) = " " THEN Trim(Tail(s))
    ELSE IF s[Len(s)] = " " THEN Trim(SubSeq(s, 1, Len(s) - 1))
    ELSE s

\* [String]::join(",")
RECURSIVE Join(_, _, _)
Join(parts, sep, i) ==
    IF i > Len(parts) THEN <<>>
    ELSE IF i = Len(parts) THEN parts[i]
    ELSE parts[i] \o <<sep>> \o Join(parts, sep, i + 1)

\* String::cmp: a < b, comparing byte by byte, a proper prefix being smaller
RECURSIVE StrLess(_, _, _)
StrLess(a, b, i) ==
    IF i > Len(b) THEN FALSE
    ELSE IF i > Len(a) THEN TRUE
    ELSE IF Byte(a[i]) < Byte(b[i]) THEN TRUE
    ELSE IF Byte(a[i]) > Byte(b[i]) THEN FALSE
    ELSE StrLess(a, b, i + 1)

\* x put into the sorted sequence, after the elements that are not greater
RECURSIVE InsertSorted(_, _, _)
InsertSorted(sorted, x, i) ==
    IF i > Len(sorted) THEN Append(sorted, x)
    ELSE IF StrLess(x, sorted[i], 1)
        THEN SubSeq(sorted, 1, i - 1) \o <<x>> \o SubSeq(sorted, i, Len(sorted))
    ELSE InsertSorted(sorted, x, i + 1)

RECURSIVE SortFrom(_, _, _)
SortFrom(tokens, i, sorted) ==
    IF i > Len(tokens) THEN sorted
    ELSE SortFrom(tokens, i + 1, InsertSorted(sorted, tokens[i], 1))

\* a sort that leaves the sequence as it is
SortNot(tokens) == tokens

\* Vec<String>::sort (stable, ascending)
Sort(tokens) == SortFrom(tokens, 1, <<>>)

(***************************************************************************)
(* container.rs: ContainerSession.  The store partition_tokens is a        *)
(* function from the partition key range ids it holds to their             *)
(* PartitionSessionToken.                                                  *)
(***************************************************************************)
\* an insert that merges with the entry already stored and keeps the stored entry
\* when the two cannot be merged
InsertMerging(map, partition_token) ==
    LET pk == partition_token.pkrange_id
        m == Merge(map[pk].vector_token, partition_token.vector_token)
    IN  IF pk \notin DOMAIN map THEN Insert(map, pk, partition_token)
        ELSE IF m.ok THEN Insert(map, pk, [pkrange_id |-> pk, vector_token |-> m.val])
        ELSE map

\* an insert that drops the entries of the other partitions
InsertPartitionTokenAlone(map, partition_token) ==
    Insert(EmptyMap, partition_token.pkrange_id, partition_token)

\* partition_tokens.insert(partition_token.pkrange_id.clone(), partition_token)
InsertPartitionToken(map, partition_token) ==
    Insert(map, partition_token.pkrange_id, partition_token)

\* the loop of set_session_token over the segments, from segment i; it gives the
\* result of the call and the store it leaves
RECURSIVE SetSessionTokenLoop(_, _, _)
SetSessionTokenLoop(segments, i, map) ==
    IF i > Len(segments) THEN [result |-> Ok(<<>>), map |-> map]
    ELSE
        LET token_str == Trim(segments[i])
            partition_token == PartitionFromStr(token_str)
        IN  IF token_str = <<>> THEN SetSessionTokenLoop(segments, i + 1, map)
            ELSE IF ~partition_token.ok THEN [result |-> partition_token, map |-> map]
            ELSE SetSessionTokenLoop(segments, i + 1,
                                     InsertPartitionToken(map, partition_token.val))

\* a set_session_token that applies a text only when all of its segments parse
SetSessionTokenTransactional(map, token_text) ==
    IF token_text = <<>> THEN [result |-> Err("EmptyInput", <<>>), map |-> map]
    ELSE LET outcome == SetSessionTokenLoop(Split(token_text, ",", 1), 1, map)
         IN  IF outcome.result.ok THEN outcome ELSE [result |-> outcome.result, map |-> map]

\* ContainerSession::set_session_token
SetSessionToken(map, token_text) ==
    IF token_text = <<>> THEN [result |-> Err("EmptyInput", <<>>), map |-> map]
    ELSE SetSessionTokenLoop(Split(token_text, ",", 1), 1, map)

\* the texts of the stored tokens, in the order values_order of the partitions and
\* each written with the region order region_orders gives for its partition
TokenStrings(map, values_order, region_orders) ==
    [i \in 1..Len(values_order) |->
        PartitionToString(map[values_order[i]], region_orders[values_order[i]])]

\* ContainerSession::get_session_token; values_order is the order in which the
\* HashMap iterates its values
GetSessionToken(map, values_order, region_orders) ==
    IF DOMAIN map = {} THEN None
    ELSE Some(Join(Sort(TokenStrings(map, values_order, region_orders)), ",", 1))

\* ContainerSession::get_partition_session_token
GetPartitionSessionToken(map, pk_range_id, order) ==
    IF pk_range_id \in DOMAIN map
    THEN Some(PartitionToString(map[pk_range_id], order))
    ELSE None

\* the region orders Display can use for each stored token
RegionOrders(map) ==
    {ro \in [DOMAIN map -> UNION {Orders(DOMAIN map[k].vector_token.regional_lsns) :
                                    k \in DOMAIN map}] :
        \A k \in DOMAIN map : ro[k] \in Orders(DOMAIN map[k].vector_token.regional_lsns)}

(***************************************************************************)
(* Session registry (session.rs): container sessions by container id.      *)
(* container_sessions maps a container id to the store of its session.     *)
(***************************************************************************)
\* a set_session_token that creates the entry before it applies the text
SessionSetInsertsFirst(sessions, container, token_text) ==
    LET outcome == SetSessionToken(IF container \in DOMAIN sessions
                                   THEN sessions[container] ELSE EmptyMap, token_text)
    IN  [result |-> outcome.result, sessions |-> Insert(sessions, container, outcome.map)]

\* a set_session_token that keeps a new session only when it holds a token
SessionAfterSetDropsEmpty(sessions, container, outcome) ==
    IF container \in DOMAIN sessions
    THEN [result |-> outcome.result,
          sessions |-> [sessions EXCEPT ![container] = outcome.map]]
    ELSE IF outcome.result.ok /\ DOMAIN outcome.map # {}
    THEN [result |-> outcome.result,
          sessions |-> Insert(sessions, container, outcome.map)]
    ELSE [result |-> outcome.result, sessions |-> sessions]

\* Session::set_session_token, after the session of the container (the
\* existing one, or a new one) took the text with this outcome: an existing
\* session stays in the registry as the call left it; a new session is inserted
\* only when it took the text without error
SessionAfterSet(sessions, container, outcome) ==
    IF container \in DOMAIN sessions
    THEN [result |-> outcome.result,
          sessions |-> [sessions EXCEPT ![container] = outcome.map]]
    ELSE IF outcome.result.ok
    THEN [result |-> outcome.result,
          sessions |-> Insert(sessions, container, outcome.map)]
    ELSE [result |-> outcome.result, sessions |-> sessions]

\* Session::set_session_token
SessionSetSessionToken(sessions, container, token_text) ==
    SessionAfterSet(sessions, container,
                    SetSessionToken(IF container \in DOMAIN sessions
                                    THEN sessions[container] ELSE EmptyMap, token_text))

\* Session::get_session_token
SessionGetSessionToken(sessions, container, values_order, region_orders) ==
    IF container \in DOMAIN sessions
    THEN GetSessionToken(sessions[container], values_order, region_orders)
    ELSE None

\* Session::get_partition_session_token
SessionGetPartitionSessionToken(sessions, container, pk_range_id, order) ==
    IF container \in DOMAIN sessions
    THEN GetPartitionSessionToken(sessions[container], pk_range_id, order)
    ELSE None

\* a clear_session that removes the entry of the container
SessionClearSessionRemoves(sessions, container) ==
    [c \in DOMAIN sessions \ {container} |-> sessions[c]]

\* a clear_session that makes an entry for a container it does not know
SessionClearSessionCreates(sessions, container) ==
    Insert(sessions, container, EmptyMap)

\* Session::clear_session: the session of the container is emptied and stays
SessionClearSession(sessions, container) ==
    IF container \in DOMAIN sessions
    THEN [sessions EXCEPT ![container] = EmptyMap]
    ELSE sessions

\* a clear_all_sessions that empties every container session and keeps the entries
ClearAllSessionsKeepsEntries(sessions) == [c \in DOMAIN sessions |-> EmptyMap]

\* Session::clear_all_sessions
ClearAllSessions(sessions) == EmptyMap

\* Session::container_count
ContainerCount(sessions) == Cardinality(DOMAIN sessions)

(***************************************************************************)
(* Query pipeline (tests/mock_engine/mod.rs): a merge of the partitions'   *)
(* items by merge order.  An item travels as a JSON document, a record     *)
(* with the camelCase field names, and is queued as a MockItem.            *)
(***************************************************************************)
\* serde_json::to_vec of a MockItem
ToJson(item) ==
    [id |-> item.id, partitionKey |-> item.partition_key, mergeOrder |-> item.merge_order]

\* serde_json::from_slice of one document of "Documents"
FromJson(doc) ==
    [id |-> doc.id, partition_key |-> doc.partitionKey, merge_order |-> doc.mergeOrder]

\* PartitionState::new
NewPartitionState(partition_key_range) ==
    [partition_key_range |-> partition_key_range, started |-> FALSE, queue |-> <<>>,
     next_continuation |-> None]

\* PartitionState::is_exhausted
IsExhausted(partition_state) ==
    /\ partition_state.queue = <<>>
    /\ partition_state.started
    /\ ~partition_state.next_continuation.some

\* a provide_data that does not keep the continuation
PartitionProvideDataDropsContinuation(partition_state, data, continuation) ==
    [partition_state EXCEPT !.started = TRUE, !.queue = @ \o data]

\* a provide_data that keeps the old continuation when the response has none
PartitionProvideDataKeepsContinuation(partition_state, data, continuation) ==
    [partition_state EXCEPT !.started = TRUE,
                            !.next_continuation =
                                IF continuation.some THEN continuation ELSE @,
                            !.queue = @ \o data]

\* PartitionState::provide_data
PartitionProvideData(partition_state, data, continuation) ==
    [partition_state EXCEPT !.started = TRUE,
                            !.next_continuation = continuation,
                            !.queue = @ \o data]

\* PartitionState::pop_item
PopItem(partition_state) ==
    IF partition_state.queue = <<>> THEN [item |-> None, state |-> partition_state]
    ELSE [item |-> Some(ToJson(Head(partition_state.queue))),
          state |-> [partition_state EXCEPT !.queue = Tail(@)]]

\* a scan that passes over a partition that has not started
RECURSIVE ScanPartitionsSkipsUnstarted(_, _, _, _)
ScanPartitionsSkipsUnstarted(states, i, lowest_partition_key_range, lowest_merge_order) ==
    IF i > Len(states)
    THEN [break_outer |-> FALSE, lowest_partition_key_range |-> lowest_partition_key_range]
    ELSE IF ~states[i].started \/ IsExhausted(states[i])
    THEN ScanPartitionsSkipsUnstarted(states, i + 1, lowest_partition_key_range,
                                      lowest_merge_order)
    ELSE IF /\ states[i].queue # <<>>
            /\ \/ ~lowest_partition_key_range.some
               \/ /\ lowest_merge_order.some
                  /\ states[i].queue[1].merge_order < lowest_merge_order.val
    THEN ScanPartitionsSkipsUnstarted(states, i + 1, Some(i),
                                      Some(states[i].queue[1].merge_order))
    ELSE ScanPartitionsSkipsUnstarted(states, i + 1, lowest_partition_key_range,
                                      lowest_merge_order)

\* a scan that takes the last of the partitions whose head items have the
\* lowest merge order
RECURSIVE ScanPartitionsLastOnTie(_, _, _, _)
ScanPartitionsLastOnTie(states, i, lowest_partition_key_range, lowest_merge_order) ==
    IF i > Len(states)
    THEN [break_outer |-> FALSE, lowest_partition_key_range |-> lowest_partition_key_range]
    ELSE IF ~states[i].started
    THEN [break_outer |-> TRUE, lowest_partition_key_range |-> None]
    ELSE IF IsExhausted(states[i])
    THEN ScanPartitionsLastOnTie(states, i + 1, lowest_partition_key_range,
                                 lowest_merge_order)
    ELSE IF /\ states[i].queue # <<>>
            /\ \/ ~lowest_partition_key_range.some
               \/ /\ lowest_merge_order.some
                  /\ states[i].queue[1].merge_order <= lowest_merge_order.val
    THEN ScanPartitionsLastOnTie(states, i + 1, Some(i),
                                 Some(states[i].queue[1].merge_order))
    ELSE ScanPartitionsLastOnTie(states, i + 1, lowest_partition_key_range,
                                 lowest_merge_order)

\* next_batch, the for loop over the partitions from the i-th on: it leaves
\* the outer loop at a partition that has not started, and else finds the first
\* partition whose head item has the lowest merge order
RECURSIVE ScanPartitions(_, _, _, _)
ScanPartitions(states, i, lowest_partition_key_range, lowest_merge_order) ==
    IF i > Len(states)
    THEN [break_outer |-> FALSE, lowest_partition_key_range |-> lowest_partition_key_range]
    ELSE IF ~states[i].started
    THEN [break_outer |-> TRUE, lowest_partition_key_range |-> None]
    ELSE IF IsExhausted(states[i])
    THEN ScanPartitions(states, i + 1, lowest_partition_key_range, lowest_merge_order)
    ELSE IF /\ states[i].queue # <<>>
            /\ \/ ~lowest_partition_key_range.some
               \/ /\ lowest_merge_order.some
                  /\ states[i].queue[1].merge_order < lowest_merge_order.val
    THEN ScanPartitions(states, i + 1, Some(i), Some(states[i].queue[1].merge_order))
    ELSE ScanPartitions(states, i + 1, lowest_partition_key_range, lowest_merge_order)

\* an outer loop that stops after the first item
SelectOnce(states, items) ==
    LET scan == ScanPartitions(states, 1, None, None)
    IN  IF ~scan.break_outer /\ scan.lowest_partition_key_range.some
        THEN LET p == scan.lowest_partition_key_range.val
                 popped == PopItem(states[p])
             IN  [states |-> [states EXCEPT ![p] = popped.state],
                  items |-> Append(items, popped.item.val)]
        ELSE [states |-> states, items |-> items]

\* next_batch, the outer loop: items are popped until a scan finds none
\* (each turn of the loop works on the values the turn before left)
RECURSIVE SelectLoop(_, _)
SelectLoop(states_before, items_before) ==
    LET Turn(states, items) ==
            LET scan == ScanPartitions(states, 1, None, None)
            IN  IF scan.break_outer THEN [states |-> states, items |-> items]
                ELSE IF scan.lowest_partition_key_range.some
                THEN LET p == scan.lowest_partition_key_range.val
                         popped == PopItem(states[p])
                     IN  SelectLoop([states EXCEPT ![p] = popped.state],
                                    IF popped.item.some
                                    THEN Append(items, popped.item.val)
                                    ELSE items)
                ELSE [states |-> states, items |-> items]
    IN  CHOOSE selected \in {Turn(states, items) :
                                states \in {states_before}, items \in {items_before}} :
            TRUE

\* requests that leave out a partition that has buffered items and no continuation
RECURSIVE RequestsSkipBuffered(_, _)
RequestsSkipBuffered(states, i) ==
    IF i > Len(states) THEN <<>>
    ELSE IF states[i].started /\ ~states[i].next_continuation.some
    THEN RequestsSkipBuffered(states, i + 1)
    ELSE <<[partition_key_range_id |-> states[i].partition_key_range,
            continuation |-> states[i].next_continuation]>>
            \o RequestsSkipBuffered(states, i + 1)

\* next_batch, the requests: one for each partition that is not exhausted
RECURSIVE Requests(_, _)
Requests(states, i) ==
    IF i > Len(states) THEN <<>>
    ELSE IF IsExhausted(states[i]) THEN Requests(states, i + 1)
    ELSE <<[partition_key_range_id |-> states[i].partition_key_range,
            continuation |-> states[i].next_continuation]>> \o Requests(states, i + 1)

\* a completion that looks at the requests only
CompletedWhenNoRequests(was_completed, items, requests) ==
    was_completed \/ requests = <<>>

\* a next_batch that never sets the completed flag
CompletedNeverSet(was_completed, items, requests) == was_completed

\* next_batch, the completed flag after the call
CompletedAfter(was_completed, items, requests) ==
    was_completed \/ (items = <<>> /\ requests = <<>>)

\* MockQueryPipeline::next_batch
NextBatch(pipeline) ==
    LET selected == SelectLoop(pipeline.partition_states, <<>>)
        requests == Requests(selected.states, 1)
        now_completed == CompletedAfter(pipeline.completed, selected.items, requests)
    IN  [pipeline |-> [completed |-> now_completed, partition_states |-> selected.states],
         result |-> Ok([completed |-> now_completed, items |-> selected.items,
                        requests |-> requests])]

\* serde_json::from_slice::<Results<MockItem>>: the payload decodes when every
\* document has the fields of a MockItem
Decodes(payload) ==
    \A i \in 1..Len(payload) :
        {"id", "partitionKey", "mergeOrder"} \subseteq DOMAIN payload[i]

\* a provide_data that gives the data for a partition it does not know to the
\* first partition
ProvideDataToFirst(pipeline, data) ==
    IF ~Decodes(data.data)
    THEN [result |-> Err("DataConversion", data.partition_key_range_id), pipeline |-> pipeline]
    ELSE LET items == [i \in 1..Len(data.data) |-> FromJson(data.data[i])]
             found == {i \in 1..Len(pipeline.partition_states) :
                        pipeline.partition_states[i].partition_key_range
                            = data.partition_key_range_id}
             first == IF found = {} THEN 1
                      ELSE CHOOSE i \in found : \A j \in found : i <= j
         IN  [result |-> Ok(<<>>),
              pipeline |-> [pipeline EXCEPT !.partition_states[first] =
                    PartitionProvideData(@, items, data.next_continuation)]]

\* MockQueryPipeline::provide_data; data.data is the sequence of the documents.
\* The payload is decoded before the partition is looked up.
ProvideData(pipeline, data) ==
    IF ~Decodes(data.data)
    THEN [result |-> Err("DataConversion", data.partition_key_range_id), pipeline |-> pipeline]
    ELSE LET items == [i \in 1..Len(data.data) |-> FromJson(data.data[i])]
             found == {i \in 1..Len(pipeline.partition_states) :
                        pipeline.partition_states[i].partition_key_range
                            = data.partition_key_range_id}
         IN  IF found = {}
             THEN [result |-> Err("Other", data.partition_key_range_id),
                   pipeline |-> pipeline]
             ELSE LET first == CHOOSE i \in found : \A j \in found : i <= j
                  IN  [result |-> Ok(<<>>),
                       pipeline |-> [pipeline EXCEPT !.partition_states[first] =
                            PartitionProvideData(@, items, data.next_continuation)]]

\* MockQueryPipeline::complete
Complete(pipeline) == pipeline.completed

(***************************************************************************)
(* Idle values of the variables a specification does not use.              *)
(***************************************************************************)
IdleToken == VectorSessionToken(0, 0, EmptyMap)

AlgIdle ==
    /\ token1 = IdleToken /\ token2 = IdleToken
    /\ merged1 = NotRun /\ merged2 = NotRun
    /\ can_advance = NotRun /\ dominates1 = NotRun /\ dominates2 = NotRun
    /\ alg_pc = "idle"

ParseIdle ==
    /\ text = <<>> /\ token = NotRun /\ regenerated = <<>> /\ reparsed = NotRun
    /\ parse_pc = "idle"

ContainerIdle ==
    /\ partition_tokens = EmptyMap
    /\ prev_tokens = EmptyMap
    /\ last_call = [op |-> "new"]
    /\ last_result = NotRun

LockIdle ==
    /\ lock = [writers |-> {}, readers |-> {}]
    /\ threads = <<>>
    /\ committed = EmptyMap

SessionIdle ==
    /\ container_sessions = EmptyMap
    /\ prev_sessions = EmptyMap
    /\ session_call = [op |-> "new"]
    /\ session_result = NotRun

PipelineIdle ==
    /\ partition_states = <<>>
    /\ completed = FALSE
    /\ pipeline_call = [op |-> "new"]
    /\ pipeline_result = NotRun
    /\ prev_pipeline = [completed |-> FALSE, partition_states |-> <<>>]
    /\ prev_batch = NotRun
    /\ server = EmptyMap
    /\ pending = <<>>
    /\ emitted = <<>>
    /\ fetches = 0

EngineIdle ==
    /\ engine_state = "Initial"
    /\ engine_pc = "idle"
    /\ yielded = <<>>
    /\ steps = 0
    /\ sends = 0
    /\ to_issue = 0
    /\ first_error = None
    /\ requested = <<>> /\ sent = <<>> /\ enqueued = <<>> /\ response = None
    /\ plans = 0 /\ ranges = 0 /\ pipelines = 0

OrderIdle ==
    /\ token_a = IdleToken /\ token_b = IdleToken /\ token_c = IdleToken
    /\ advance = NotRun
    /\ grouped = NotRun
    /\ order_pc = "idle"

RegistryIdle ==
    /\ shared_sessions = EmptyMap
    /\ sessions_lock = [writers |-> {}, readers |-> {}]
    /\ container_locks = EmptyMap
    /\ callers = <<>>
    /\ sessions_at_start = EmptyMap

(***************************************************************************)
(* SpecAlgebra: merge and can_advance_to applied to every pair of tokens   *)
(* within the bounds.                                                      *)
(***************************************************************************)
Versions == 1..MaxVersion
Lsns == 1..MaxLsn
Regions == 1..MaxRegion
RegionalLsns == UNION {[S -> Lsns] : S \in SUBSET Regions}
Tokens == {VectorSessionToken(v, g, m) : v \in Versions, g \in Lsns, m \in RegionalLsns}

AlgInit ==
    /\ token1 \in Tokens /\ token2 \in Tokens
    /\ merged1 = NotRun /\ merged2 = NotRun
    /\ can_advance = NotRun /\ dominates1 = NotRun /\ dominates2 = NotRun
    /\ alg_pc = "start"
    /\ ParseIdle /\ ContainerIdle /\ LockIdle /\ SessionIdle /\ PipelineIdle /\ EngineIdle /\ OrderIdle /\ RegistryIdle

\* token1.merge(token2) and token2.merge(token1), as in merge_is_commutative
MergeStep ==
    /\ alg_pc \in {"start", "compared"}
    /\ merged1 = NotRun
    /\ merged1' = Merge(token1, token2)
    /\ merged2' = Merge(token2, token1)
    /\ alg_pc' = "merged"
    /\ UNCHANGED <<token1, token2, can_advance, dominates1, dominates2>>
    /\ UNCHANGED beside_alg

\* token1.can_advance_to(&token2): token1 is current, token2 is other
CanAdvanceStep ==
    /\ alg_pc \in {"start", "merged"}
    /\ can_advance = NotRun
    /\ can_advance' = CanAdvanceTo(token1, token2)
    /\ alg_pc' = "compared"
    /\ UNCHANGED <<token1, token2, merged1, merged2, dominates1, dominates2>>
    /\ UNCHANGED beside_alg

\* the merged token compared with each of the tokens it was merged from
DominatesStep ==
    /\ alg_pc = "merged"
    /\ merged1.ok
    /\ dominates1' = CanAdvanceTo(token1, merged1.val)
    /\ dominates2' = CanAdvanceTo(token2, merged1.val)
    /\ alg_pc' = "dominated"
    /\ UNCHANGED <<token1, token2, merged1, merged2, can_advance>>
    /\ UNCHANGED beside_alg

AlgNext == MergeStep \/ CanAdvanceStep \/ DominatesStep

SpecAlgebra == AlgInit /\ [][AlgNext]_vars

(***************************************************************************)
(* SpecOrder: can_advance_to applied to a token and itself and to the      *)
(* pairs of three tokens.  The tokens have the versions and the LSNs of    *)
(* SpecAlgebra and hold region 1 or no region.                             *)
(***************************************************************************)
OrderTokens ==
    {VectorSessionToken(v, g, m) :
        v \in Versions, g \in Lsns, m \in UNION {[S -> Lsns] : S \in SUBSET {1}}}

OrderInit ==
    /\ token_a \in OrderTokens /\ token_b \in OrderTokens /\ token_c \in OrderTokens
    /\ advance = NotRun
    /\ grouped = NotRun
    /\ order_pc = "start"
    /\ AlgIdle /\ ParseIdle /\ ContainerIdle /\ LockIdle /\ SessionIdle /\ PipelineIdle /\ RegistryIdle
    /\ EngineIdle

\* a.can_advance_to(&a), a.can_advance_to(&b), b.can_advance_to(&a),
\* b.can_advance_to(&c) and a.can_advance_to(&c)
OrderStep ==
    /\ order_pc = "start"
    /\ advance' = [aa |-> CanAdvanceTo(token_a, token_a),
                   ab |-> CanAdvanceTo(token_a, token_b),
                   ba |-> CanAdvanceTo(token_b, token_a),
                   bc |-> CanAdvanceTo(token_b, token_c),
                   ac |-> CanAdvanceTo(token_a, token_c)]
    /\ order_pc' = "compared"
    /\ UNCHANGED <<token_a, token_b, token_c, grouped>>
    /\ UNCHANGED beside_order

OrderNext == OrderStep

SpecOrder == OrderInit /\ [][OrderNext]_vars

(***************************************************************************)
(* SpecGrouping: three tokens are merged in the two groupings,             *)
(* a.merge(b) then .merge(c), and a.merge(b.merge(c)).  The tokens have    *)
(* one version more than those of SpecAlgebra, so that the three versions  *)
(* can differ, its LSNs, and hold region 1 or no region.                   *)
(***************************************************************************)
GroupingTokens ==
    {VectorSessionToken(v, g, m) :
        v \in 1..(MaxVersion + 1), g \in Lsns,
        m \in UNION {[S -> Lsns] : S \in SUBSET {1}}}

GroupingInit ==
    /\ token_a \in GroupingTokens /\ token_b \in GroupingTokens
    /\ token_c \in GroupingTokens
    /\ advance = NotRun
    /\ grouped = NotRun
    /\ order_pc = "start"
    /\ AlgIdle /\ ParseIdle /\ ContainerIdle /\ LockIdle /\ SessionIdle /\ PipelineIdle /\ RegistryIdle
    /\ EngineIdle

\* first.merge(other)? : the merge of a result with a token, an error of the
\* first merge going through
MergeResult(first, other) == IF first.ok THEN Merge(first.val, other) ELSE first

\* other.merge(second?) : the merge of a token with a result
MergeWithResult(other, second) == IF second.ok THEN Merge(other, second.val) ELSE second

\* a.merge(b)?.merge(c) and a.merge(b.merge(c)?)
GroupingStep ==
    /\ order_pc = "start"
    /\ grouped' = [left |-> MergeResult(Merge(token_a, token_b), token_c),
                   right |-> MergeWithResult(token_a, Merge(token_b, token_c))]
    /\ order_pc' = "grouped"
    /\ UNCHANGED <<token_a, token_b, token_c, advance>>
    /\ UNCHANGED beside_order

GroupingNext == GroupingStep

SpecGrouping == GroupingInit /\ [][GroupingNext]_vars

(***************************************************************************)
(* SpecParse: a vector token text is parsed, written back by Display in    *)
(* one of the orders the HashMap can iterate in, and parsed again.         *)
(* The texts are put together from field texts that are valid, padded with *)
(* zeros, at the limits of the integer widths, beyond them, non-numeric or *)
(* empty, so that every return of from_str is taken.                       *)
(***************************************************************************)
BoundedSeq(S, n) == UNION {[1..k -> S] : k \in 0..n}

RECURSIVE Concat(_, _)
Concat(parts, i) == IF i > Len(parts) THEN <<>> ELSE parts[i] \o Concat(parts, i + 1)

VersionStrs == {<<"1">>, <<"0", "2">>, <<"x">>, <<>>}
GlobalStrs == {<<"7">>, <<"2", "5", "5">>, <<"2", "5", "6">>, <<>>}
ComponentStrs ==
    {id \o <<"=">> \o lsn : id \in {<<"1">>, <<"0", "1">>, <<"1", "5">>},
                            lsn \in {<<"3">>, <<"1", "0">>}}
    \cup {<<"1">>, <<"=", "3">>, <<"1", "=">>, <<>>, <<"1", "6", "=", "3">>, <<"1", "=", "x">>}
GlobalParts == {<<>>} \cup {<<"#">> \o g : g \in GlobalStrs}
ComponentSeqs == BoundedSeq({<<"#">> \o c : c \in ComponentStrs}, MaxComponents)
\* numbers at the limit of an integer width: the largest value, the value one
\* above it, the largest value padded with a zero, and the largest value with a
\* letter after it
LimitStrs(max) ==
    {FormatNum(max), FormatNum(max + 1), <<"0">> \o FormatNum(max),
     FormatNum(max) \o <<"x">>}

\* a token text with a number at the limit in each of its numeric fields
LimitTexts ==
    {n \o <<"#", "7">> : n \in LimitStrs(MaxU64)}
        \cup {<<"1", "#">> \o n : n \in LimitStrs(MaxU64)}
        \cup {<<"1", "#", "7", "#">> \o n \o <<"=", "3">> : n \in LimitStrs(MaxU32)}
        \cup {<<"1", "#", "7", "#", "1", "=">> \o n : n \in LimitStrs(MaxU64)}
        \cup {FormatNum(MaxU64) \o <<"#">> \o FormatNum(MaxU64) \o <<"#">>
                \o FormatNum(MaxU32) \o <<"=">> \o FormatNum(MaxU64)}

VectorTextInputs ==
    {v \o g \o Concat(cs, 1) : v \in VersionStrs, g \in GlobalParts, cs \in ComponentSeqs}
        \cup LimitTexts

ParseInit ==
    /\ text \in VectorTextInputs
    /\ token = NotRun /\ regenerated = <<>> /\ reparsed = NotRun
    /\ parse_pc = "start"
    /\ AlgIdle /\ ContainerIdle /\ LockIdle /\ SessionIdle /\ PipelineIdle /\ EngineIdle /\ OrderIdle /\ RegistryIdle

\* let token: VectorSessionToken = text.parse()
ParseStep ==
    /\ parse_pc = "start"
    /\ token' = VectorFromStr(text)
    /\ parse_pc' = "parsed"
    /\ UNCHANGED <<text, regenerated, reparsed>>
    /\ UNCHANGED beside_parse

\* let regenerated = token.to_string()
ToStringStep ==
    /\ parse_pc = "parsed"
    /\ token.ok
    /\ \E order \in Orders(DOMAIN token.val.regional_lsns) :
            regenerated' = VectorToString(token.val, order)
    /\ parse_pc' = "regenerated"
    /\ UNCHANGED <<text, token, reparsed>>
    /\ UNCHANGED beside_parse

\* let reparsed: VectorSessionToken = regenerated.parse()
ReparseStep ==
    /\ parse_pc = "regenerated"
    /\ reparsed' = VectorFromStr(regenerated)
    /\ parse_pc' = "reparsed"
    /\ UNCHANGED <<text, token, regenerated>>
    /\ UNCHANGED beside_parse

ParseNext == ParseStep \/ ToStringStep \/ ReparseStep

SpecParse == ParseInit /\ [][ParseNext]_vars

(***************************************************************************)
(* SpecContainer: a client calls the operations of one ContainerSession,   *)
(* one call at a time, and looks at each result before the next call.      *)
(* The container token texts are put together from segments that name      *)
(* three partitions with tokens of different versions, LSNs and region     *)
(* key-sets, padded with whitespace, malformed or empty.                   *)
(***************************************************************************)
Pk2 == <<"2">>
Pk10 == <<"1", "0">>
Pk1 == <<"1">>
VecA == <<"2", "#", "7">>
VecB == <<"1", "#", "3", "#", "1", "=", "2", "#", "2", "=", "1">>
VecC == <<"1", "#", "2", "#", "1", "=", "5">>

SegmentStrs ==
    {Pk2 \o <<":">> \o v : v \in {VecA, VecB, VecC}}
    \cup {Pk10 \o <<":">> \o VecC, <<" ">> \o Pk10 \o <<":">> \o VecA \o <<" ">>,
          Pk1 \o <<":">> \o VecB}
    \cup {<<>>, <<" ">>, Pk2, <<":">> \o VecA, Pk2 \o <<":">>,
          Pk2 \o <<":", "x", "#", "7">>}

\* texts of three segments that fail after a segment that parsed and before
\* one that would parse: "10:1#2#1=5,2:x#7,1:1#3#1=2#2=1" and "2:1#2#1=5,,2:"
PartialFailureTexts ==
    {Join(<<Pk10 \o <<":">> \o VecC, Pk2 \o <<":", "x", "#", "7">>, Pk1 \o <<":">> \o VecB>>,
          ",", 1),
     Join(<<Pk2 \o <<":">> \o VecC, <<>>, Pk2 \o <<":">>>>, ",", 1)}

ContainerTextInputs ==
    {Join(segs, ",", 1) : segs \in BoundedSeq(SegmentStrs, MaxSegments)}
    \cup PartialFailureTexts

PkInputs == {Pk2, Pk10, Pk1, <<"9">>}

\* ContainerSession::new
ContainerInit ==
    /\ partition_tokens = EmptyMap
    /\ prev_tokens = EmptyMap
    /\ last_call = [op |-> "new"]
    /\ last_result = NotRun
    /\ AlgIdle /\ ParseIdle /\ LockIdle /\ SessionIdle /\ PipelineIdle /\ EngineIdle /\ OrderIdle /\ RegistryIdle

Returned == last_call.op \in {"new", "returned"}

CallSetSessionToken ==
    /\ Returned
    /\ \E token_text \in ContainerTextInputs :
        LET outcome == SetSessionToken(partition_tokens, token_text)
        IN  /\ partition_tokens' = outcome.map
            /\ last_result' = outcome.result
            /\ last_call' = [op |-> "set_session_token", token |-> token_text]
    /\ prev_tokens' = partition_tokens
    /\ UNCHANGED beside_container

CallGetSessionToken ==
    /\ Returned
    /\ \E values_order \in Orders(DOMAIN partition_tokens) :
       \E region_orders \in RegionOrders(partition_tokens) :
            last_result' = GetSessionToken(partition_tokens, values_order, region_orders)
    /\ last_call' = [op |-> "get_session_token"]
    /\ prev_tokens' = partition_tokens
    /\ UNCHANGED partition_tokens
    /\ UNCHANGED beside_container

CallGetPartitionSessionToken ==
    /\ Returned
    /\ \E pk_range_id \in PkInputs :
        /\ \E order \in (IF pk_range_id \in DOMAIN partition_tokens
                         THEN Orders(DOMAIN partition_tokens[pk_range_id].vector_token.regional_lsns)
                         ELSE {<<>>}) :
                last_result' = GetPartitionSessionToken(partition_tokens, pk_range_id, order)
        /\ last_call' = [op |-> "get_partition_session_token", pk_range_id |-> pk_range_id]
    /\ prev_tokens' = partition_tokens
    /\ UNCHANGED partition_tokens
    /\ UNCHANGED beside_container

\* ContainerSession::clear_session
CallClearSession ==
    /\ Returned
    /\ partition_tokens' = EmptyMap
    /\ last_call' = [op |-> "clear_session"]
    /\ last_result' = Ok(<<>>)
    /\ prev_tokens' = partition_tokens
    /\ UNCHANGED beside_container

\* the client has looked at the result and is ready for its next call
Return ==
    /\ ~Returned
    /\ last_call' = [op |-> "returned"]
    /\ last_result' = NotRun
    /\ prev_tokens' = partition_tokens
    /\ UNCHANGED partition_tokens
    /\ UNCHANGED beside_container

ContainerNext ==
    \/ CallSetSessionToken
    \/ CallGetSessionToken
    \/ CallGetPartitionSessionToken
    \/ CallClearSession
    \/ Return

SpecContainer == ContainerInit /\ [][ContainerNext]_vars

(***************************************************************************)
(* SpecLock: NumThreads threads call one container session concurrently.   *)
(* Every method takes the RwLock around the store first: set_session_token *)
(* and clear_session the write lock, the two getters the read lock; the    *)
(* lock is released when the method returns.  A thread's steps are the     *)
(* lock operations and, under the write lock, one insert per segment.      *)
(***************************************************************************)
Threads == 1..NumThreads

LockTextInputs ==
    { Pk2 \o <<":">> \o VecA \o <<",">> \o Pk10 \o <<":">> \o VecC,
      Pk2 \o <<":">> \o VecC \o <<",">> \o Pk10 \o <<":">> \o VecA,
      Pk2 \o <<":">> \o VecB \o <<",">> \o Pk2 \o <<":", "x", "#", "7">>,
      <<>> }

LockCalls ==
    {[op |-> "set_session_token", token |-> token_text] : token_text \in LockTextInputs}
    \cup {[op |-> "get_session_token"], [op |-> "clear_session"]}
    \cup {[op |-> "get_partition_session_token", pk_range_id |-> pk] : pk \in {Pk2, Pk1}}

IdleThread == [pc |-> "idle", call |-> [op |-> "none"], i |-> 0, result |-> NotRun]

\* a write lock that does not wait for the readers
CanWriteBesideReaders(l) == l.writers = {}

\* RwLock::write succeeds when no thread holds the lock
CanWrite(l) == l.writers = {} /\ l.readers = {}

\* a read lock that does not wait for the writer
CanReadWhileWritten(l) == TRUE

\* RwLock::read succeeds when no thread holds the write lock
CanRead(l) == l.writers = {}

LockInit ==
    /\ lock = [writers |-> {}, readers |-> {}]
    /\ threads = [t \in Threads |-> IdleThread]
    /\ committed = EmptyMap
    /\ ContainerIdle /\ AlgIdle /\ ParseIdle /\ SessionIdle /\ PipelineIdle /\ EngineIdle /\ OrderIdle /\ RegistryIdle

\* set_session_token with an empty text returns before it takes the lock
SetRejectsEmpty(t) ==
    /\ threads[t].pc = "idle"
    /\ threads' = [threads EXCEPT ![t] =
            [pc |-> "returned", call |-> [op |-> "set_session_token", token |-> <<>>],
             i |-> 0, result |-> Err("EmptyInput", <<>>)]]
    /\ UNCHANGED <<lock, committed, partition_tokens>>
    /\ UNCHANGED beside_lock

\* set_session_token and clear_session: self.partition_tokens.write()
WriteLock(t) ==
    /\ threads[t].pc = "idle"
    /\ CanWrite(lock)
    /\ \E call \in LockCalls :
        /\ call.op \in {"set_session_token", "clear_session"}
        /\ call.op = "set_session_token" => call.token # <<>>
        /\ threads' = [threads EXCEPT ![t] =
                [pc |-> "write_locked", call |-> call, i |-> 1, result |-> NotRun]]
    /\ lock' = [lock EXCEPT !.writers = {t}]
    /\ UNCHANGED <<committed, partition_tokens>>
    /\ UNCHANGED beside_lock

\* one turn of the loop of set_session_token over the segments of the text
SetStep(t) ==
    /\ threads[t].pc = "write_locked"
    /\ threads[t].call.op = "set_session_token"
    /\ LET segments == Split(threads[t].call.token, ",", 1)
           i == threads[t].i
           token_str == Trim(segments[i])
           partition_token == PartitionFromStr(token_str)
       IN  IF i > Len(segments)
           THEN /\ threads' = [threads EXCEPT ![t].pc = "write_unlock",
                                              ![t].result = Ok(<<>>)]
                /\ UNCHANGED partition_tokens
           ELSE IF token_str = <<>>
           THEN /\ threads' = [threads EXCEPT ![t].i = i + 1]
                /\ UNCHANGED partition_tokens
           ELSE IF ~partition_token.ok
           THEN /\ threads' = [threads EXCEPT ![t].pc = "write_unlock",
                                              ![t].result = partition_token]
                /\ UNCHANGED partition_tokens
           ELSE /\ threads' = [threads EXCEPT ![t].i = i + 1]
                /\ partition_tokens' =
                        InsertPartitionToken(partition_tokens, partition_token.val)
    /\ UNCHANGED <<lock, committed>>
    /\ UNCHANGED beside_lock

\* clear_session: tokens.clear()
ClearStep(t) ==
    /\ threads[t].pc = "write_locked"
    /\ threads[t].call.op = "clear_session"
    /\ partition_tokens' = EmptyMap
    /\ threads' = [threads EXCEPT ![t].pc = "write_unlock", ![t].result = Ok(<<>>)]
    /\ UNCHANGED <<lock, committed>>
    /\ UNCHANGED beside_lock

\* the write guard is dropped when the method returns
WriteUnlock(t) ==
    /\ threads[t].pc = "write_unlock"
    /\ lock' = [lock EXCEPT !.writers = @ \ {t}]
    /\ committed' = partition_tokens
    /\ threads' = [threads EXCEPT ![t].pc = "returned"]
    /\ UNCHANGED partition_tokens
    /\ UNCHANGED beside_lock

\* get_session_token and get_partition_session_token: self.partition_tokens.read()
ReadLock(t) ==
    /\ threads[t].pc = "idle"
    /\ CanRead(lock)
    /\ \E call \in LockCalls :
        /\ call.op \in {"get_session_token", "get_partition_session_token"}
        /\ threads' = [threads EXCEPT ![t] =
                [pc |-> "read_locked", call |-> call, i |-> 0, result |-> NotRun]]
    /\ lock' = [lock EXCEPT !.readers = @ \cup {t}]
    /\ UNCHANGED <<committed, partition_tokens>>
    /\ UNCHANGED beside_lock

\* what get_session_token can return for a store
GetSessionTokenResults(map) ==
    {GetSessionToken(map, values_order, region_orders) :
        values_order \in Orders(DOMAIN map), region_orders \in RegionOrders(map)}

\* what get_partition_session_token can return for a store
GetPartitionSessionTokenResults(map, pk_range_id) ==
    {GetPartitionSessionToken(map, pk_range_id, order) :
        order \in (IF pk_range_id \in DOMAIN map
                   THEN Orders(DOMAIN map[pk_range_id].vector_token.regional_lsns)
                   ELSE {<<>>})}

\* what the getter named by a call can return for a store
GetResults(map, call) ==
    IF call.op = "get_session_token" THEN GetSessionTokenResults(map)
    ELSE GetPartitionSessionTokenResults(map, call.pk_range_id)

\* the body of a getter, under the read lock
GetStep(t) ==
    /\ threads[t].pc = "read_locked"
    /\ \E result \in GetResults(partition_tokens, threads[t].call) :
        threads' = [threads EXCEPT ![t].pc = "read_unlock", ![t].result = result]
    /\ UNCHANGED <<lock, committed, partition_tokens>>
    /\ UNCHANGED beside_lock

\* the read guard is dropped when the method returns
ReadUnlock(t) ==
    /\ threads[t].pc = "read_unlock"
    /\ lock' = [lock EXCEPT !.readers = @ \ {t}]
    /\ threads' = [threads EXCEPT ![t].pc = "returned"]
    /\ UNCHANGED <<committed, partition_tokens>>
    /\ UNCHANGED beside_lock

\* the thread has looked at the result and is ready for its next call
ThreadReturn(t) ==
    /\ threads[t].pc = "returned"
    /\ threads' = [threads EXCEPT ![t] = IdleThread]
    /\ UNCHANGED <<lock, committed, partition_tokens>>
    /\ UNCHANGED beside_lock

LockNext ==
    \E t \in Threads :
        \/ SetRejectsEmpty(t)
        \/ WriteLock(t)
        \/ SetStep(t)
        \/ ClearStep(t)
        \/ WriteUnlock(t)
        \/ ReadLock(t)
        \/ GetStep(t)
        \/ ReadUnlock(t)
        \/ ThreadReturn(t)

SpecLock == LockInit /\ [][LockNext]_vars

(***************************************************************************)
(* SpecSession: one client calls the methods of a session registry, one    *)
(* call at a time, for containers it does and does not know.               *)
(***************************************************************************)
ResourceIds == {"collA", "collB"}

SessionSegmentStrs ==
    {Pk2 \o <<":">> \o VecA, Pk2 \o <<":">> \o VecC, Pk10 \o <<":">> \o VecC,
     Pk2 \o <<":", "x", "#", "7">>, <<>>, <<" ">>}

SessionTextInputs ==
    {Join(segs, ",", 1) : segs \in BoundedSeq(SessionSegmentStrs, MaxSegments)}

\* Session::new
SessionInit ==
    /\ container_sessions = EmptyMap
    /\ prev_sessions = EmptyMap
    /\ session_call = [op |-> "new"]
    /\ session_result = NotRun
    /\ AlgIdle /\ ParseIdle /\ ContainerIdle /\ LockIdle /\ PipelineIdle /\ EngineIdle /\ OrderIdle /\ RegistryIdle

SessionReturned == session_call.op \in {"new", "returned"}

SessionCallSetSessionToken ==
    /\ SessionReturned
    /\ \E container \in ResourceIds, token_text \in SessionTextInputs :
        \E outcome \in {SessionSetSessionToken(container_sessions, container, token_text)} :
            /\ container_sessions' = outcome.sessions
            /\ session_result' = outcome.result
            /\ session_call' = [op |-> "set_session_token", container |-> container,
                                token |-> token_text]
    /\ prev_sessions' = container_sessions
    /\ UNCHANGED beside_session

SessionCallGetSessionToken ==
    /\ SessionReturned
    /\ \E container \in ResourceIds :
        LET map == IF container \in DOMAIN container_sessions
                   THEN container_sessions[container] ELSE EmptyMap
        IN  /\ \E values_order \in Orders(DOMAIN map), region_orders \in RegionOrders(map) :
                session_result' = SessionGetSessionToken(container_sessions, container,
                                                         values_order, region_orders)
            /\ session_call' = [op |-> "get_session_token", container |-> container]
    /\ prev_sessions' = container_sessions
    /\ UNCHANGED container_sessions
    /\ UNCHANGED beside_session

SessionCallGetPartitionSessionToken ==
    /\ SessionReturned
    /\ \E container \in ResourceIds, pk_range_id \in {Pk2, Pk1} :
        LET map == IF container \in DOMAIN container_sessions
                   THEN container_sessions[container] ELSE EmptyMap
        IN  /\ \E order \in (IF pk_range_id \in DOMAIN map
                             THEN Orders(DOMAIN map[pk_range_id].vector_token.regional_lsns)
                             ELSE {<<>>}) :
                session_result' = SessionGetPartitionSessionToken(container_sessions,
                                                    container, pk_range_id, order)
            /\ session_call' = [op |-> "get_partition_session_token",
                                container |-> container, pk_range_id |-> pk_range_id]
    /\ prev_sessions' = container_sessions
    /\ UNCHANGED container_sessions
    /\ UNCHANGED beside_session

SessionCallClearSession ==
    /\ SessionReturned
    /\ \E container \in ResourceIds :
        /\ container_sessions' = SessionClearSession(container_sessions, container)
        /\ session_call' = [op |-> "clear_session", container |-> container]
    /\ session_result' = Ok(<<>>)
    /\ prev_sessions' = container_sessions
    /\ UNCHANGED beside_session

SessionCallClearAllSessions ==
    /\ SessionReturned
    /\ container_sessions' = ClearAllSessions(container_sessions)
    /\ session_call' = [op |-> "clear_all_sessions"]
    /\ session_result' = Ok(<<>>)
    /\ prev_sessions' = container_sessions
    /\ UNCHANGED beside_session

SessionCallContainerCount ==
    /\ SessionReturned
    /\ session_call' = [op |-> "container_count"]
    /\ session_result' = Ok(ContainerCount(container_sessions))
    /\ prev_sessions' = container_sessions
    /\ UNCHANGED container_sessions
    /\ UNCHANGED beside_session

\* the client has looked at the result and is ready for its next call
SessionReturn ==
    /\ ~SessionReturned
    /\ session_call' = [op |-> "returned"]
    /\ session_result' = NotRun
    /\ prev_sessions' = container_sessions
    /\ UNCHANGED container_sessions
    /\ UNCHANGED beside_session

SessionNext ==
    \/ SessionCallSetSessionToken
    \/ SessionCallGetSessionToken
    \/ SessionCallGetPartitionSessionToken
    \/ SessionCallClearSession
    \/ SessionCallClearAllSessions
    \/ SessionCallContainerCount
    \/ SessionReturn

SpecSession == SessionInit /\ [][SessionNext]_vars

(***************************************************************************)
(* SpecPipeline and SpecDriven: a pipeline over two partitions and a       *)
(* server that holds, for each partition, its items cut into pages.  The   *)
(* items carry the merge orders 1..NumItems, each once, and a partition's  *)
(* pages hold its items in increasing merge order; a page that is not the  *)
(* last comes with a continuation, the number of the next page.            *)
(* In SpecPipeline next_batch can be called at any time and the requests   *)
(* of the last batch are answered in any order, up to MaxFetches pages.    *)
(* In SpecDriven every request of a batch is answered, in order, before    *)
(* the next call of next_batch, until the pipeline is complete.            *)
(***************************************************************************)
PartitionKeyRanges == <<"0", "1">>

PartitionKeyRangeIds == {PartitionKeyRanges[i] : i \in 1..Len(PartitionKeyRanges)}

\* the numbers of a set in increasing order
RECURSIVE Ascending(_)
Ascending(S) ==
    IF S = {} THEN <<>>
    ELSE LET least == CHOOSE x \in S : \A y \in S : x <= y
         IN  <<least>> \o Ascending(S \ {least})

\* the document of the item of a partition with a merge order
Document(partition_key_range_id, merge_order) ==
    [id |-> merge_order, partitionKey |-> partition_key_range_id, mergeOrder |-> merge_order]

\* the ways to cut a list of documents into 1..MaxPages pages, some maybe empty
PageLists(documents) ==
    UNION {
        {[k \in 1..n |->
            SubSeq(documents,
                   (IF k = 1 THEN 0 ELSE cut[k - 1]) + 1,
                   IF k = n THEN Len(documents) ELSE cut[k])] :
            cut \in {c \in [1..(n - 1) -> 0..Len(documents)] :
                        \A a, b \in 1..(n - 1) : a <= b => c[a] <= c[b]}} :
        n \in 1..MaxPages}

\* the documents of the items an assignment of the merge orders gives to a
\* partition, in increasing merge order
DocumentsOf(owner, id) ==
    LET merge_orders == Ascending({m \in 1..NumItems : owner[m] = id})
    IN  [k \in 1..Len(merge_orders) |-> Document(id, merge_orders[k])]

\* the servers: every way to give each merge order to a partition and to cut
\* each partition's items into pages
Servers ==
    UNION {
        {sv \in [PartitionKeyRangeIds ->
                    UNION {PageLists(DocumentsOf(owner, id)) : id \in PartitionKeyRangeIds}] :
            \A id \in PartitionKeyRangeIds : sv[id] \in PageLists(DocumentsOf(owner, id))} :
        owner \in [1..NumItems -> PartitionKeyRangeIds]}

\* the server's answer to a request: the page the continuation names (the first
\* page without one) and the continuation for the page after it, if there is one
ServerFetch(pages, request) ==
    LET page == IF request.continuation.some THEN request.continuation.val ELSE 1
    IN  [partition_key_range_id |-> request.partition_key_range_id,
         data |-> pages[request.partition_key_range_id][page],
         next_continuation |->
            IF page < Len(pages[request.partition_key_range_id]) THEN Some(page + 1)
            ELSE None]

Pipeline == [completed |-> completed, partition_states |-> partition_states]

\* MockQueryPipeline::new over the partition key ranges, and a server
PipelineInit ==
    /\ partition_states = [i \in 1..Len(PartitionKeyRanges) |->
                                NewPartitionState(PartitionKeyRanges[i])]
    /\ completed = FALSE
    /\ pipeline_call = [op |-> "new"]
    /\ pipeline_result = NotRun
    /\ prev_pipeline = [completed |-> FALSE,
                        partition_states |-> [i \in 1..Len(PartitionKeyRanges) |->
                                                NewPartitionState(PartitionKeyRanges[i])]]
    /\ prev_batch = NotRun
    /\ server \in Servers
    /\ pending = <<>>
    /\ emitted = <<>>
    /\ fetches = 0
    /\ AlgIdle /\ ParseIdle /\ ContainerIdle /\ LockIdle /\ SessionIdle /\ EngineIdle /\ OrderIdle /\ RegistryIdle

\* a call of next_batch; the caller keeps the items and the requests
CallNextBatch ==
    \E outcome \in {NextBatch(Pipeline)} :
        /\ partition_states' = outcome.pipeline.partition_states
        /\ completed' = outcome.pipeline.completed
        /\ pipeline_result' = outcome.result
        /\ pipeline_call' = [op |-> "next_batch"]
        /\ prev_pipeline' = Pipeline
        /\ prev_batch' = IF pipeline_call.op = "next_batch" THEN pipeline_result ELSE NotRun
        /\ pending' = outcome.result.val.requests
        /\ emitted' = emitted \o outcome.result.val.items
        /\ UNCHANGED <<server, fetches>>
        /\ UNCHANGED beside_pipeline

\* the i-th request not answered yet is sent to the server and the answer is
\* given to provide_data
FetchAndProvideData(i) ==
    \E data \in {ServerFetch(server, pending[i])} :
    \E outcome \in {ProvideData(Pipeline, data)} :
        /\ partition_states' = outcome.pipeline.partition_states
        /\ completed' = outcome.pipeline.completed
        /\ pipeline_result' = outcome.result
        /\ pipeline_call' = [op |-> "provide_data", data |-> data]
        /\ prev_pipeline' = Pipeline
        /\ prev_batch' = NotRun
        /\ pending' = [k \in 1..(Len(pending) - 1) |->
                            IF k < i THEN pending[k] ELSE pending[k + 1]]
        /\ fetches' = fetches + 1
        /\ UNCHANGED <<server, emitted>>
        /\ UNCHANGED beside_pipeline

AnswerAnyRequest ==
    /\ fetches < MaxFetches
    /\ \E i \in 1..Len(pending) : FetchAndProvideData(i)

PipelineNext ==
    \/ CallNextBatch
    \/ AnswerAnyRequest

SpecPipeline == PipelineInit /\ [][PipelineNext]_vars

\* data no request of the pipeline asked for: a page for a partition key range
\* the pipeline was not built over, a payload that is no list of MockItems (a
\* document without its mergeOrder), or both
StrayData ==
    {[partition_key_range_id |-> id, data |-> payload, next_continuation |-> Some(2)] :
        id \in {"0", "7"},
        payload \in {<<Document("7", 1)>>, <<[id |-> 1, partitionKey |-> "0"]>>}}
    \ {[partition_key_range_id |-> "0", data |-> <<Document("7", 1)>>,
         next_continuation |-> Some(2)]}

\* provide_data is called with data the pipeline cannot take
ProvideStrayData ==
    /\ fetches < MaxFetches
    /\ \E data \in StrayData :
       \E outcome \in {ProvideData(Pipeline, data)} :
            /\ partition_states' = outcome.pipeline.partition_states
            /\ completed' = outcome.pipeline.completed
            /\ pipeline_result' = outcome.result
            /\ pipeline_call' = [op |-> "provide_data", data |-> data]
            /\ prev_pipeline' = Pipeline
            /\ prev_batch' = NotRun
            /\ fetches' = fetches + 1
            /\ UNCHANGED <<server, pending, emitted>>
            /\ UNCHANGED beside_pipeline

StrayNext ==
    \/ CallNextBatch
    \/ AnswerAnyRequest
    \/ ProvideStrayData

\* the pipeline with a caller that also hands it data it cannot take
SpecStray == PipelineInit /\ [][StrayNext]_vars

\* the states provide_data can leave a partition in: not started and empty, or
\* started with up to MaxBuffered items of any merge orders in its buffer (the
\* pages are the server's) and with or without a continuation
BufferedStates(partition_key_range) ==
    {NewPartitionState(partition_key_range)}
    \cup {[partition_key_range |-> partition_key_range, started |-> TRUE,
            queue |-> [k \in 1..Len(merge_orders) |->
                        FromJson(Document(partition_key_range, merge_orders[k]))],
            next_continuation |-> continuation] :
                merge_orders \in BoundedSeq(1..MaxBuffered, MaxBuffered),
                continuation \in {None, Some(2)}}

\* a pipeline whose partitions have been given any pages
BatchInit ==
    /\ partition_states \in
            {states \in [1..Len(PartitionKeyRanges) ->
                            UNION {BufferedStates(PartitionKeyRanges[i]) :
                                        i \in 1..Len(PartitionKeyRanges)}] :
                \A i \in 1..Len(PartitionKeyRanges) :
                    states[i] \in BufferedStates(PartitionKeyRanges[i])}
    /\ completed = FALSE
    /\ pipeline_call = [op |-> "new"]
    /\ pipeline_result = NotRun
    /\ prev_pipeline = [completed |-> completed, partition_states |-> partition_states]
    /\ prev_batch = NotRun
    /\ server = EmptyMap
    /\ pending = <<>>
    /\ emitted = <<>>
    /\ fetches = 0
    /\ AlgIdle /\ ParseIdle /\ ContainerIdle /\ LockIdle /\ SessionIdle /\ EngineIdle /\ OrderIdle /\ RegistryIdle

BatchNext == CallNextBatch

\* single calls of next_batch on a pipeline with any buffers
SpecBatch == BatchInit /\ [][BatchNext]_vars

\* the driver calls next_batch when it has answered every request and the
\* pipeline is not complete
DriverNextBatch ==
    /\ pending = <<>>
    /\ ~Complete(Pipeline)
    /\ CallNextBatch

\* the driver answers the requests of a batch in their order
DriverAnswersRequest ==
    /\ pending # <<>>
    /\ FetchAndProvideData(1)

DrivenNext ==
    \/ DriverNextBatch
    \/ DriverAnswersRequest

SpecDriven == PipelineInit /\ [][DrivenNext]_vars

\* the driver has stopped: the pipeline is complete and no request is left
DrivenToCompletion == Complete(Pipeline) /\ pending = <<>>

\* the driver is a loop of calls that each return: a step it can take is
\* taken in the end
SpecDrivenFair == PipelineInit /\ [][DrivenNext]_vars /\ WF_vars(DrivenNext)

(***************************************************************************)
(* SpecEngine: the stream of QueryEngine::into_stream.  A poll runs the    *)
(* unfold closure once; it stops at every call of the transport or of the  *)
(* pipeline, whose outcomes (success or error, and the kind of result of   *)
(* step_pipeline) are chosen freely, since both are outside this crate.    *)
(* A run yields up to MaxYielded elements and steps the pipeline up to     *)
(* MaxSteps times; a NeedsMoreData result names up to MaxRequests          *)
(* partitions.                                                             *)
(***************************************************************************)
\* the continuation a request of the pipeline can carry, the requests of one
\* NeedsMoreData result and the responses of the service to one request (a
\* page with a continuation, and an empty last page)
EngineContinuations == {None, Some("c1")}
EngineRequests ==
    [partition_key_range_id : PartitionKeyRangeIds, continuation : EngineContinuations]
EngineResponses ==
    {[items |-> <<"doc">>, continuation |-> Some("c2")],
     [items |-> <<>>, continuation |-> None]}

EngineInit ==
    /\ engine_state = "Initial"
    /\ engine_pc = "idle"
    /\ yielded = <<>>
    /\ steps = 0
    /\ sends = 0
    /\ to_issue = 0
    /\ first_error = None
    /\ requested = <<>> /\ sent = <<>> /\ enqueued = <<>> /\ response = None
    /\ plans = 0 /\ ranges = 0 /\ pipelines = 0
    /\ AlgIdle /\ ParseIdle /\ ContainerIdle /\ LockIdle /\ SessionIdle /\ PipelineIdle /\ OrderIdle /\ RegistryIdle

\* a variant of StateAfter that begins the query anew after an error
StateAfterRestarts(state, element) ==
    IF element = "error" THEN (IF state = "Initial" THEN "Done" ELSE "Initial")
    ELSE "Running"

\* the state the closure hands to the next poll: an error met in the Initial
\* state leaves the stream Done, a page leaves it Running, and whatever
\* next_page gives in the Running state leaves it Running
StateAfter(state, element) ==
    IF state = "Initial"
    THEN (IF element = "error" THEN "Done" ELSE "Running")
    ELSE "Running"

\* the closure returns Some((element, next state))
StreamYields(element, steps_now, sends_now) ==
    /\ yielded' = Append(yielded, element)
    /\ engine_state' = StateAfter(engine_state, element)
    /\ engine_pc' = "idle"
    /\ to_issue' = 0
    /\ first_error' =
            IF element = "error" /\ ~first_error.some
            THEN Some([yielded |-> Len(yielded) + 1, steps |-> steps_now,
                       sends |-> sends_now])
            ELSE first_error

\* the closure returns None: the stream has ended
StreamEnds ==
    /\ engine_pc' = "ended"
    /\ UNCHANGED <<engine_state, yielded, to_issue, first_error>>

\* a poll in the Initial state starts initial() with the query plan request
PollInitial ==
    /\ engine_pc = "idle" /\ engine_state = "Initial"
    /\ engine_pc' = "query_plan"
    /\ UNCHANGED <<engine_state, yielded, steps, sends, to_issue, first_error>>
    /\ UNCHANGED <<requested, sent, enqueued, response, plans, ranges, pipelines>>
    /\ UNCHANGED beside_engine

\* a poll in the Running state starts next_page
PollRunning ==
    /\ engine_pc = "idle" /\ engine_state = "Running"
    /\ Len(yielded) < MaxYielded
    /\ engine_pc' = "step_pipeline"
    /\ UNCHANGED <<engine_state, yielded, steps, sends, to_issue, first_error>>
    /\ UNCHANGED <<requested, sent, enqueued, response, plans, ranges, pipelines>>
    /\ UNCHANGED beside_engine

\* a poll in the Done state ends the stream
PollDone ==
    /\ engine_pc = "idle" /\ engine_state = "Done"
    /\ StreamEnds
    /\ UNCHANGED <<steps, sends>>
    /\ UNCHANGED <<requested, sent, enqueued, response, plans, ranges, pipelines>>
    /\ UNCHANGED beside_engine

\* initial(): the query plan is fetched and decoded
QueryPlan ==
    /\ engine_pc = "query_plan"
    /\ sends' = sends + 1
    /\ steps' = steps
    /\ plans' = plans + 1
    /\ \E ok \in BOOLEAN :
            IF ok
            THEN /\ engine_pc' = "partition_key_ranges"
                 /\ UNCHANGED <<engine_state, yielded, to_issue, first_error>>
            ELSE StreamYields("error", steps, sends + 1)
    /\ UNCHANGED <<requested, sent, enqueued, response, ranges, pipelines>>
    /\ UNCHANGED beside_engine

\* initial(): the partition key ranges are fetched and decoded, the pipeline is
\* built from the plan and next_page begins
FetchPartitionKeyRanges ==
    /\ engine_pc = "partition_key_ranges"
    /\ sends' = sends + 1
    /\ steps' = steps
    /\ ranges' = ranges + 1
    /\ \E ok \in BOOLEAN :
            IF ok
            THEN /\ engine_pc' = "step_pipeline"
                 /\ pipelines' = pipelines + 1
                 /\ UNCHANGED <<engine_state, yielded, to_issue, first_error>>
            ELSE /\ StreamYields("error", steps, sends + 1)
                 /\ pipelines' = pipelines
    /\ UNCHANGED <<requested, sent, enqueued, response, plans>>
    /\ UNCHANGED beside_engine

\* what step_pipeline can return: an error, None, a page of data whose items
\* can or cannot be deserialized, or the requests for some partitions
StepOutcomes ==
    {[kind |-> "error"], [kind |-> "none"]}
        \cup {[kind |-> "data", deserialized |-> ok] : ok \in BOOLEAN}
        \cup {[kind |-> "needs_more_data", partitions |-> partitions] :
                    partitions \in BoundedSeq(EngineRequests, MaxRequests)}

\* next_page: one turn of the loop up to the first request
StepPipeline ==
    /\ engine_pc = "step_pipeline"
    /\ steps < MaxSteps
    /\ steps' = steps + 1
    /\ sends' = sends
    /\ sent' = <<>> /\ enqueued' = <<>>
    /\ \E next \in StepOutcomes :
            /\ requested' = IF next.kind = "needs_more_data" THEN next.partitions ELSE <<>>
            /\ CASE next.kind = "error" -> StreamYields("error", steps + 1, sends)
                 [] next.kind = "none" -> StreamEnds
                 [] next.kind = "data" ->
                       StreamYields(IF next.deserialized THEN "page" ELSE "error",
                                    steps + 1, sends)
                 [] next.kind = "needs_more_data" ->
                       /\ engine_pc' = IF next.partitions = <<>> THEN "step_pipeline"
                                       ELSE "send"
                       /\ to_issue' = Len(next.partitions)
                       /\ UNCHANGED <<engine_state, yielded, first_error>>
    /\ UNCHANGED <<response, plans, ranges, pipelines>>
    /\ UNCHANGED beside_engine

\* the request of the batch the loop is at
CurrentRequest == requested[Len(requested) - to_issue + 1]

\* the headers of the request for a partition, with the response that came
\* back for it (None when the exchange failed)
QueryRequestSent(partition, answer) ==
    [partition_key_range_id |-> partition.partition_key_range_id,
     continuation |-> partition.continuation,
     response |-> answer]

\* next_page: the request for the next partition of the batch is sent and its
\* answer decoded
SendQueryRequest ==
    /\ engine_pc = "send"
    /\ sends' = sends + 1
    /\ steps' = steps
    /\ \E answer \in {None} \cup {Some(r) : r \in EngineResponses} :
            /\ sent' = Append(sent, QueryRequestSent(CurrentRequest, answer))
            /\ IF answer.some
               THEN /\ engine_pc' = "enqueue_data"
                    /\ response' = answer
                    /\ UNCHANGED <<engine_state, yielded, to_issue, first_error>>
               ELSE /\ StreamYields("error", steps, sends + 1)
                    /\ response' = None
    /\ UNCHANGED <<requested, enqueued, plans, ranges, pipelines>>
    /\ UNCHANGED beside_engine

\* the arguments of enqueue_data for the response to the request for a partition
EnqueueDataCall(partition, results) ==
    [partition_key_range_id |-> partition.partition_key_range_id,
     items |-> results.items,
     continuation |-> results.continuation]

\* next_page: the answer is given to the pipeline; after the last partition of
\* the batch the loop steps the pipeline again
EnqueueData ==
    /\ engine_pc = "enqueue_data"
    /\ UNCHANGED <<steps, sends>>
    /\ enqueued' = Append(enqueued, EnqueueDataCall(CurrentRequest, response.val))
    /\ response' = None
    /\ \E ok \in BOOLEAN :
            IF ok
            THEN /\ to_issue' = to_issue - 1
                 /\ engine_pc' = IF to_issue = 1 THEN "step_pipeline" ELSE "send"
                 /\ UNCHANGED <<engine_state, yielded, first_error>>
            ELSE StreamYields("error", steps, sends)
    /\ UNCHANGED <<requested, sent, plans, ranges, pipelines>>
    /\ UNCHANGED beside_engine

EngineNext ==
    \/ PollInitial
    \/ PollRunning
    \/ PollDone
    \/ QueryPlan
    \/ FetchPartitionKeyRanges
    \/ StepPipeline
    \/ SendQueryRequest
    \/ EnqueueData

SpecEngine == EngineInit /\ [][EngineNext]_vars

(***************************************************************************)
(* SpecRegistry: NumThreads threads share one session registry; each makes *)
(* one call.  A call goes through the RwLock of the registry and, for a    *)
(* container the registry holds, through the RwLock of that container      *)
(* session; a guard is released when the block or method that took it      *)
(* ends.  The body of a container session's method runs as one step under  *)
(* the container's lock.                                                   *)
(***************************************************************************)
RegistryTextInputs ==
    {Pk2 \o <<":">> \o VecA,
     Pk2 \o <<":">> \o VecC,
     Pk10 \o <<":">> \o VecC,
     Join(<<Pk10 \o <<":">> \o VecA, Pk2 \o <<":", "x", "#", "7">>>>, ",", 1),
     <<",">>,
     <<>>}

RegistryCalls ==
    {[op |-> "set_session_token", container |-> "collA", token |-> token_text] :
        token_text \in RegistryTextInputs}
    \cup {[op |-> "set_session_token", container |-> "collB",
           token |-> Pk2 \o <<":">> \o VecA],
          [op |-> "get_session_token", container |-> "collA"],
          [op |-> "get_partition_session_token", container |-> "collA",
           pk_range_id |-> Pk2],
          [op |-> "clear_session", container |-> "collA"],
          [op |-> "clear_all_sessions"],
          [op |-> "container_count"]}

\* the registries the threads can find: an empty one, and one that holds a
\* token of partition 1 for the container collA
RegistryStarts ==
    {EmptyMap,
     SessionSetSessionToken(EmptyMap, "collA", Pk1 \o <<":">> \o VecB).sessions}

FreeLock == [writers |-> {}, readers |-> {}]

\* the stores a container session can hold after up to n calls of
\* set_session_token with the texts of the model
RECURSIVE StoresWithin(_)
StoresWithin(n) ==
    IF n = 0
    THEN {EmptyMap} \cup UNION {{sessions[c] : c \in DOMAIN sessions} :
                                    sessions \in RegistryStarts}
    ELSE LET before == StoresWithin(n - 1)
         IN  before \cup {SetSessionToken(map, token_text).map :
                            map \in before, token_text \in RegistryTextInputs}

\* ContainerSession::set_session_token for each store and text of the model,
\* worked out once
SetSessionTokenOutcomes ==
    {[map |-> map, token |-> token_text, outcome |-> SetSessionToken(map, token_text)] :
        map \in StoresWithin(NumThreads), token_text \in RegistryTextInputs}

\* what the getters of a container session can return, for each store and
\* getter call of the model, worked out once
GetterResults ==
    {[map |-> map, call |-> call, results |-> GetResults(map, call)] :
        map \in StoresWithin(NumThreads),
        call \in {c \in RegistryCalls :
                    c.op \in {"get_session_token", "get_partition_session_token"}}}

\* what the getter named by a call can return for a store
GetterResultsFor(map, call) ==
    (CHOOSE known \in GetterResults : known.map = map /\ known.call = call).results

\* the outcome of set_session_token for a store and a text
SetSessionTokenOutcome(map, token_text) ==
    (CHOOSE known \in SetSessionTokenOutcomes :
        known.map = map /\ known.token = token_text).outcome

\* the calls that differ in the locks they take and in what they do under
\* them: of the calls of set_session_token, one with a valid text, one with a
\* text that fails and one with the empty text
RegistryLockCalls ==
    {call \in RegistryCalls :
        call.op = "set_session_token" =>
            /\ call.container = "collA"
            /\ call.token \in {<<>>, Pk2 \o <<":">> \o VecA,
                               Join(<<Pk10 \o <<":">> \o VecA, Pk2 \o <<":", "x", "#", "7">>>>,
                                    ",", 1)}}

\* each thread is about to make one of the calls
RegistryInitWith(calls) ==
    /\ shared_sessions \in RegistryStarts
    /\ sessions_at_start = shared_sessions
    /\ sessions_lock = FreeLock
    /\ container_locks = [c \in DOMAIN shared_sessions |-> FreeLock]
    /\ callers \in [Threads -> {[pc |-> "called", call |-> call, result |-> NotRun] :
                                    call \in calls}]

RegistryInit ==
    /\ RegistryInitWith(RegistryCalls)
    /\ AlgIdle /\ ParseIdle /\ ContainerIdle /\ LockIdle /\ SessionIdle /\ PipelineIdle /\ EngineIdle /\ OrderIdle

\* the methods that begin with self.container_sessions.read()
ReadsFirst ==
    {"set_session_token", "get_session_token", "get_partition_session_token",
     "clear_session", "container_count"}

\* the methods of a container session that take its write lock
ContainerWriters == {"set_session_token", "clear_session"}

\* self.container_sessions.read()
SessionsRead(t) ==
    /\ callers[t].pc = "called"
    /\ callers[t].call.op \in ReadsFirst
    /\ CanRead(sessions_lock)
    /\ sessions_lock' = [sessions_lock EXCEPT !.readers = @ \cup {t}]
    /\ callers' = [callers EXCEPT ![t].pc = "sessions_read"]
    /\ UNCHANGED <<shared_sessions, container_locks, sessions_at_start>>
    /\ UNCHANGED beside_registry

\* the thread calls a method of the container session it found: an empty text
\* is refused by set_session_token before the container's lock is asked for
EnterContainer(t) ==
    IF callers[t].call.op = "set_session_token" /\ callers[t].call.token = <<>>
    THEN callers' = [callers EXCEPT ![t].pc = "sessions_unlock",
                                    ![t].result = Err("EmptyInput", <<>>)]
    ELSE callers' = [callers EXCEPT ![t].pc = "container_lock"]

\* a set_session_token that keeps its read guard while it asks for the write lock
ReadersKeepGuard(readers, t) == readers

\* the readers of the registry's lock once set_session_token has left the block
\* in which it looked the container up
ReadersAfterBlock(readers, t) == readers \ {t}

\* container_sessions.get(container) under the read lock, and container_count
SessionsReadBody(t) ==
    /\ callers[t].pc = "sessions_read"
    /\ LET call == callers[t].call
       IN  IF call.op = "container_count"
           THEN /\ callers' = [callers EXCEPT ![t].pc = "sessions_unlock",
                                   ![t].result = Ok(ContainerCount(shared_sessions))]
                /\ UNCHANGED sessions_lock
           ELSE IF call.container \in DOMAIN shared_sessions
           THEN /\ EnterContainer(t)
                /\ UNCHANGED sessions_lock
           ELSE IF call.op = "set_session_token"
           THEN /\ callers' = [callers EXCEPT ![t].pc = "sessions_upgrade"]
                /\ sessions_lock' =
                        [sessions_lock EXCEPT !.readers = ReadersAfterBlock(@, t)]
           ELSE /\ callers' = [callers EXCEPT ![t].pc = "sessions_unlock",
                                   ![t].result = IF call.op = "clear_session"
                                                 THEN Ok(<<>>) ELSE None]
                /\ UNCHANGED sessions_lock
    /\ UNCHANGED <<shared_sessions, container_locks, sessions_at_start>>
    /\ UNCHANGED beside_registry

\* self.container_sessions.write(): in set_session_token after the container was
\* not found, and in clear_all_sessions
SessionsWrite(t) ==
    /\ \/ callers[t].pc = "sessions_upgrade"
       \/ callers[t].pc = "called" /\ callers[t].call.op = "clear_all_sessions"
    /\ CanWrite(sessions_lock)
    /\ sessions_lock' = [sessions_lock EXCEPT !.writers = {t}]
    /\ callers' = [callers EXCEPT ![t].pc = "sessions_written"]
    /\ UNCHANGED <<shared_sessions, container_locks, sessions_at_start>>
    /\ UNCHANGED beside_registry

\* an entry taken for vacant whatever the registry holds
EntryAlwaysVacant(sessions, container) == TRUE

\* Entry::Vacant: the registry has no session for the container
EntryIsVacant(sessions, container) == container \notin DOMAIN sessions

\* under the write lock: clear_all_sessions empties the registry;
\* set_session_token goes to the session another thread has inserted meanwhile
\* or makes a new session, gives it the text and inserts it when that succeeded
SessionsWriteBody(t) ==
    /\ callers[t].pc = "sessions_written"
    /\ LET call == callers[t].call
       IN  IF call.op = "clear_all_sessions"
           THEN /\ shared_sessions' = ClearAllSessions(shared_sessions)
                /\ container_locks' = EmptyMap
                /\ callers' = [callers EXCEPT ![t].pc = "sessions_unlock",
                                              ![t].result = Ok(<<>>)]
           ELSE IF ~EntryIsVacant(shared_sessions, call.container)
           THEN /\ EnterContainer(t)
                /\ UNCHANGED <<shared_sessions, container_locks>>
           ELSE \E outcome \in {SetSessionTokenOutcome(EmptyMap, call.token)} :
                /\ callers' = [callers EXCEPT ![t].pc = "sessions_unlock",
                                              ![t].result = outcome.result]
                /\ IF outcome.result.ok
                   THEN /\ shared_sessions' =
                                Insert(shared_sessions, call.container, outcome.map)
                        /\ container_locks' =
                                Insert(container_locks, call.container, FreeLock)
                   ELSE UNCHANGED <<shared_sessions, container_locks>>
    /\ UNCHANGED <<sessions_lock, sessions_at_start>>
    /\ UNCHANGED beside_registry

\* self.partition_tokens.write() or .read() of the container session
ContainerLock(t) ==
    /\ callers[t].pc = "container_lock"
    /\ LET container == callers[t].call.container
       IN  IF callers[t].call.op \in ContainerWriters
           THEN /\ CanWrite(container_locks[container])
                /\ container_locks' = [container_locks EXCEPT ![container].writers = {t}]
           ELSE /\ CanRead(container_locks[container])
                /\ container_locks' =
                        [container_locks EXCEPT ![container].readers = @ \cup {t}]
    /\ callers' = [callers EXCEPT ![t].pc = "container_locked"]
    /\ UNCHANGED <<shared_sessions, sessions_lock, sessions_at_start>>
    /\ UNCHANGED beside_registry

\* the body of the container session's method, under its lock
ContainerBody(t) ==
    /\ callers[t].pc = "container_locked"
    /\ LET call == callers[t].call
           container == call.container
       IN  CASE call.op = "set_session_token" ->
                    \E outcome \in {SetSessionTokenOutcome(shared_sessions[container], call.token)} :
                        /\ shared_sessions' =
                                [shared_sessions EXCEPT ![container] = outcome.map]
                        /\ callers' = [callers EXCEPT ![t].pc = "container_unlock",
                                                      ![t].result = outcome.result]
             [] call.op = "clear_session" ->
                    /\ shared_sessions' = SessionClearSession(shared_sessions, container)
                    /\ callers' = [callers EXCEPT ![t].pc = "container_unlock",
                                                  ![t].result = Ok(<<>>)]
             [] OTHER ->
                    /\ \E result \in GetterResultsFor(shared_sessions[container], call) :
                            callers' = [callers EXCEPT ![t].pc = "container_unlock",
                                                       ![t].result = result]
                    /\ UNCHANGED shared_sessions
    /\ UNCHANGED <<sessions_lock, container_locks, sessions_at_start>>
    /\ UNCHANGED beside_registry

\* the guard of the container session's lock is dropped when its method returns
ContainerUnlock(t) ==
    /\ callers[t].pc = "container_unlock"
    /\ container_locks' =
            [container_locks EXCEPT ![callers[t].call.container] =
                [writers |-> @.writers \ {t}, readers |-> @.readers \ {t}]]
    /\ callers' = [callers EXCEPT ![t].pc = "sessions_unlock"]
    /\ UNCHANGED <<shared_sessions, sessions_lock, sessions_at_start>>
    /\ UNCHANGED beside_registry

\* the guard of the registry's lock is dropped when the method returns
SessionsUnlock(t) ==
    /\ callers[t].pc = "sessions_unlock"
    /\ sessions_lock' = [writers |-> sessions_lock.writers \ {t},
                         readers |-> sessions_lock.readers \ {t}]
    /\ callers' = [callers EXCEPT ![t].pc = "returned"]
    /\ UNCHANGED <<shared_sessions, container_locks, sessions_at_start>>
    /\ UNCHANGED beside_registry

\* the steps of one thread
CallerStep(t) ==
    \/ SessionsRead(t)
    \/ SessionsReadBody(t)
    \/ SessionsWrite(t)
    \/ SessionsWriteBody(t)
    \/ ContainerLock(t)
    \/ ContainerBody(t)
    \/ ContainerUnlock(t)
    \/ SessionsUnlock(t)

RegistryNext == \E t \in Threads : CallerStep(t)

SpecRegistry == RegistryInit /\ [][RegistryNext]_vars

RegistryFairInit ==
    /\ RegistryInitWith(RegistryLockCalls)
    /\ AlgIdle /\ ParseIdle /\ ContainerIdle /\ LockIdle /\ SessionIdle /\ PipelineIdle /\ EngineIdle /\ OrderIdle

\* every thread that can take a step takes one in the end: a thread is never
\* left waiting for a lock that stays free
SpecRegistryFair ==
    RegistryFairInit /\ [][RegistryNext]_vars /\ \A t \in Threads : WF_vars(CallerStep(t))

(***************************************************************************)
(* Properties of the token algebra (checked under SpecAlgebra).            *)
(***************************************************************************)
SameVersion == token1.version = token2.version
SameRegions == DOMAIN token1.regional_lsns = DOMAIN token2.regional_lsns
MergeRan == merged1 # NotRun
CanAdvanceRan == can_advance # NotRun

\* C1: merge is commutative: token1.merge(token2) and token2.merge(token1) either
\* both fail (with the same error) or both succeed with the same version, the same
\* global LSN and the same region -> LSN mapping, for equal and unequal versions.
C1_MergeIsCommutative ==
    MergeRan =>
        /\ merged1.ok = merged2.ok
        /\ merged1.ok =>
            /\ merged1.val.version = merged2.val.version
            /\ merged1.val.global_lsn = merged2.val.global_lsn
            /\ merged1.val.regional_lsns = merged2.val.regional_lsns
        /\ ~merged1.ok => merged1.err = merged2.err

\* a merge of tokens of different versions in which the lower-version token is
\* ahead in the global LSN and holds a region the higher-version token lacks
C1_Witness ==
    /\ MergeRan /\ merged1.ok /\ merged2.ok
    /\ token1.version < token2.version
    /\ token1.global_lsn > token2.global_lsn
    /\ DOMAIN token1.regional_lsns \ DOMAIN token2.regional_lsns # {}
    /\ DOMAIN token1.regional_lsns \cap DOMAIN token2.regional_lsns # {}

\* C2: for tokens of equal version and identical region key-sets the merge succeeds
\* and the merged token dominates both inputs: can_advance_to from either input to
\* the merged token returns true, without error.
C2_MergeDominatesBoth ==
    (SameVersion /\ SameRegions) =>
        /\ MergeRan => merged1.ok
        /\ alg_pc = "dominated" => dominates1 = Ok(TRUE) /\ dominates2 = Ok(TRUE)

\* neither input dominates the other: token1 is ahead globally, token2 in a region
C2_Witness ==
    /\ alg_pc = "dominated" /\ SameVersion /\ SameRegions
    /\ token1.global_lsn > token2.global_lsn
    /\ \E r \in DOMAIN token1.regional_lsns : token1.regional_lsns[r] < token2.regional_lsns[r]
    /\ dominates1 = Ok(TRUE) /\ dominates2 = Ok(TRUE)

\* C4: when the versions differ can_advance_to is decided by the versions alone:
\* true when other's version is higher, false when it is lower, never an error,
\* whatever the LSNs and the region key-sets are.
C4_VersionGatesAdvance ==
    CanAdvanceRan =>
        /\ token2.version > token1.version => can_advance = Ok(TRUE)
        /\ token2.version < token1.version => can_advance = Ok(FALSE)

\* other has the higher version but is behind in the global LSN and in a region,
\* and the region key-sets differ
C4_Witness ==
    /\ CanAdvanceRan
    /\ token2.version > token1.version
    /\ token2.global_lsn < token1.global_lsn
    /\ ~SameRegions
    /\ \E r \in DOMAIN token1.regional_lsns \cap DOMAIN token2.regional_lsns :
            token2.regional_lsns[r] < token1.regional_lsns[r]
    /\ can_advance = Ok(TRUE)

\* C5: for tokens of equal version and identical region key-sets can_advance_to is
\* true exactly when other's global LSN and every regional LSN of other are at
\* least those of current; one regressing component makes it false.
C5_AdvanceIffNoRegression ==
    (CanAdvanceRan /\ SameVersion /\ SameRegions) =>
        /\ can_advance.ok
        /\ can_advance.val <=>
            /\ token2.global_lsn >= token1.global_lsn
            /\ \A r \in DOMAIN token1.regional_lsns :
                    token2.regional_lsns[r] >= token1.regional_lsns[r]

\* the global LSN and one region advance, a single other region regresses
C5_Witness ==
    /\ CanAdvanceRan /\ SameVersion /\ SameRegions
    /\ token2.global_lsn > token1.global_lsn
    /\ \E r, q \in DOMAIN token1.regional_lsns :
            /\ token2.regional_lsns[r] > token1.regional_lsns[r]
            /\ token2.regional_lsns[q] < token1.regional_lsns[q]
    /\ can_advance = Ok(FALSE)

\* C6: for tokens of equal version whose region key-sets differ, merge (in both
\* argument orders) fails with TokensCannotBeMerged and can_advance_to fails with
\* InvalidRegions; neither returns a token or a boolean.
C6_RegionMismatchFails ==
    (SameVersion /\ ~SameRegions) =>
        /\ MergeRan =>
            /\ ~merged1.ok /\ merged1.err = "TokensCannotBeMerged"
            /\ ~merged2.ok /\ merged2.err = "TokensCannotBeMerged"
        /\ CanAdvanceRan => ~can_advance.ok /\ can_advance.err = "InvalidRegions"

\* both operations ran on tokens of equal version and disjoint, equally large
\* region key-sets
C6_Witness ==
    /\ MergeRan /\ CanAdvanceRan /\ SameVersion
    /\ DOMAIN token1.regional_lsns # {} /\ DOMAIN token2.regional_lsns # {}
    /\ DOMAIN token1.regional_lsns \cap DOMAIN token2.regional_lsns = {}
    /\ ~merged1.ok /\ ~can_advance.ok

\* C7: the merge of tokens of equal version and identical region key-sets has that
\* version, that region key-set, the maximum of the two global LSNs and, for each
\* region, the maximum of the two LSNs of that region.
C7_EqualVersionMergeTakesMax ==
    (MergeRan /\ SameVersion /\ SameRegions) =>
        /\ merged1.ok
        /\ merged1.val.version = token1.version
        /\ merged1.val.global_lsn = Max(token1.global_lsn, token2.global_lsn)
        /\ DOMAIN merged1.val.regional_lsns = DOMAIN token1.regional_lsns
        /\ \A r \in DOMAIN token1.regional_lsns :
                merged1.val.regional_lsns[r]
                    = Max(token1.regional_lsns[r], token2.regional_lsns[r])

\* the maxima come from different tokens, as in merge_same_version_takes_max_values
C7_Witness ==
    /\ MergeRan /\ SameVersion /\ SameRegions
    /\ token1.global_lsn < token2.global_lsn
    /\ \E r, q \in DOMAIN token1.regional_lsns :
            /\ token1.regional_lsns[r] < token2.regional_lsns[r]
            /\ token1.regional_lsns[q] > token2.regional_lsns[q]
    /\ merged1.ok /\ merged1.val # token1 /\ merged1.val # token2

\* C8: the merge of tokens of unequal versions never fails; the result has the
\* higher-version token's version, its global LSN verbatim and exactly its region
\* key-set; a region in both tokens gets the maximum of the two LSNs, a region of
\* the lower-version token alone is dropped.
C8_UnequalVersionMergeKeepsHigher ==
    (MergeRan /\ ~SameVersion) =>
        LET higher == IF token1.version > token2.version THEN token1 ELSE token2
            lower == IF token1.version > token2.version THEN token2 ELSE token1
        IN  /\ merged1.ok
            /\ merged1.val.version = higher.version
            /\ merged1.val.global_lsn = higher.global_lsn
            /\ DOMAIN merged1.val.regional_lsns = DOMAIN higher.regional_lsns
            /\ \A r \in DOMAIN higher.regional_lsns :
                    merged1.val.regional_lsns[r] =
                        IF r \in DOMAIN lower.regional_lsns
                        THEN Max(higher.regional_lsns[r], lower.regional_lsns[r])
                        ELSE higher.regional_lsns[r]

\* the lower-version token is token2 (the argument), it is ahead in the global LSN
\* and in a shared region, and it holds a region the higher-version token lacks
C8_Witness ==
    /\ MergeRan /\ merged1.ok
    /\ token1.version > token2.version
    /\ token2.global_lsn > token1.global_lsn
    /\ DOMAIN token2.regional_lsns \ DOMAIN token1.regional_lsns # {}
    /\ \E r \in DOMAIN token1.regional_lsns \cap DOMAIN token2.regional_lsns :
            token2.regional_lsns[r] > token1.regional_lsns[r]
    /\ merged1.val.global_lsn = token1.global_lsn

(***************************************************************************)
(* Properties of parsing and formatting (checked under SpecParse).         *)
(***************************************************************************)
\* C3: round trip: whenever from_str accepts a text, the text Display writes for
\* the parsed token, in whatever order it writes the regions, is accepted too and
\* parses to a token with the same version, global LSN and region -> LSN mapping.
C3_RoundTrip ==
    parse_pc = "reparsed" =>
        /\ reparsed.ok
        /\ reparsed.val.version = token.val.version
        /\ reparsed.val.global_lsn = token.val.global_lsn
        /\ reparsed.val.regional_lsns = token.val.regional_lsns

\* "02#7#01=3#15=10" was parsed, written back as "2#7#15=10#1=3" (the regions in
\* the other order, the padding zeros gone) and parsed again
C3_Witness ==
    /\ parse_pc = "reparsed"
    /\ text = <<"0", "2", "#", "7", "#", "0", "1", "=", "3", "#", "1", "5", "=", "1", "0">>
    /\ regenerated = <<"2", "#", "7", "#", "1", "5", "=", "1", "0", "#", "1", "=", "3">>
    /\ reparsed.ok
    /\ reparsed.val = VectorSessionToken(2, 7, [r \in {1, 15} |-> IF r = 1 THEN 3 ELSE 10])

(***************************************************************************)
(* Properties of the container session (checked under SpecContainer).      *)
(***************************************************************************)
\* the segments of a container token text that set_session_token does not skip
TrimmedSegments(token_text) ==
    LET pieces == Split(token_text, ",", 1)
    IN  [i \in 1..Len(pieces) |-> Trim(pieces[i])]

SetSucceeded == last_call.op = "set_session_token" /\ last_result.ok

\* C9: last write wins per partition: after a successful set_session_token, for
\* every partition id named in the text, the store holds exactly the token the text
\* gives for it (the last one, if the text names the partition twice) and
\* get_partition_session_token returns that token's text, whatever entry the
\* partition had before: the new token replaces it and is never merged with it.
C9_LastWriteWins ==
    SetSucceeded =>
        LET segs == TrimmedSegments(last_call.token)
        IN  \A i \in 1..Len(segs) :
                LET given == PartitionFromStr(segs[i])
                    pk == given.val.pkrange_id
                    isLast == \A j \in (i + 1)..Len(segs) :
                                segs[j] = <<>> \/ PartitionFromStr(segs[j]).val.pkrange_id # pk
                IN  (segs[i] # <<>> /\ isLast) =>
                        /\ given.ok
                        /\ pk \in DOMAIN partition_tokens
                        /\ partition_tokens[pk] = given.val
                        /\ \A order \in Orders(DOMAIN given.val.vector_token.regional_lsns) :
                            LET got == GetPartitionSessionToken(partition_tokens, pk, order)
                            IN  /\ got.some
                                /\ got.val \in PartitionTexts(given.val)
                                /\ PartitionFromStr(got.val) = given

\* partition 2 held "1#3#1=2#2=1" and partition 10 held "2#7"; the call
\* "2:1#2#1=5,10:1#2#1=5" replaced the first by a token of the same version with
\* a lower global LSN and another region key-set (a merge would fail) and the
\* second by a token of a lower version
C9_Witness ==
    /\ SetSucceeded
    /\ last_call.token = Pk2 \o <<":">> \o VecC \o <<",">> \o Pk10 \o <<":">> \o VecC
    /\ Pk2 \in DOMAIN prev_tokens /\ Pk10 \in DOMAIN prev_tokens
    /\ prev_tokens[Pk2].vector_token = VectorFromStr(VecB).val
    /\ prev_tokens[Pk10].vector_token = VectorFromStr(VecA).val
    /\ ~Merge(prev_tokens[Pk2].vector_token, VectorFromStr(VecC).val).ok
    /\ partition_tokens[Pk2].vector_token = VectorFromStr(VecC).val
    /\ partition_tokens[Pk10].vector_token = VectorFromStr(VecC).val

\* C10: get_session_token returns None exactly when no partition is tracked;
\* otherwise its text, split at the commas, is one partition token text for each
\* tracked partition, each the text of the token currently stored for it, in
\* strictly ascending lexicographic order.
C10_GetSessionTokenListsStore ==
    last_call.op = "get_session_token" =>
        /\ last_result = None <=> DOMAIN partition_tokens = {}
        /\ last_result.some =>
            LET parts == Split(last_result.val, ",", 1)
            IN  /\ Len(parts) = Cardinality(DOMAIN partition_tokens)
                /\ \A i \in 1..Len(parts) :
                    LET t == PartitionFromStr(parts[i])
                    IN  /\ t.ok
                        /\ t.val.pkrange_id \in DOMAIN partition_tokens
                        /\ t.val = partition_tokens[t.val.pkrange_id]
                        /\ parts[i] \in PartitionTexts(partition_tokens[t.val.pkrange_id])
                /\ \A i, j \in 1..Len(parts) : i < j => StrLess(parts[i], parts[j], 1)

\* three partitions are tracked; the text lists partition 10 before partition 1
\* before partition 2, the order of the texts and not of the ids
C10_Witness ==
    /\ last_call.op = "get_session_token"
    /\ DOMAIN partition_tokens = {Pk1, Pk2, Pk10}
    /\ last_result = Some(Pk10 \o <<":">> \o VecC \o <<",">>
                            \o Pk1 \o <<":">> \o VecB \o <<",">>
                            \o Pk2 \o <<":">> \o VecA)

\* the segments of a text that are not empty after trimming, in order
NonEmptySegments(token_text) ==
    SelectSeq(TrimmedSegments(token_text), LAMBDA seg : seg # <<>>)

SetFailed ==
    /\ last_call.op = "set_session_token"
    /\ ~last_result.ok
    /\ last_call.token # <<>>

\* C11: set_session_token is not transactional: when the k-th non-empty segment
\* of the text is the first that fails to parse, the call returns the error of
\* that segment, the partitions named by the segments 1..k-1 hold the tokens
\* these segments give (the last one for a partition named twice), and nothing
\* else changed: no segment after k was applied.
C11_SetIsNotTransactional ==
    SetFailed =>
        LET segs == NonEmptySegments(last_call.token)
            failing == {i \in 1..Len(segs) : ~PartitionFromStr(segs[i]).ok}
        IN  /\ failing # {}
            /\ LET k == CHOOSE i \in failing : \A j \in failing : i <= j
                    pkOf(i) == PartitionFromStr(segs[i]).val.pkrange_id
                IN  /\ last_result = PartitionFromStr(segs[k])
                    /\ DOMAIN partition_tokens =
                            DOMAIN prev_tokens \cup {pkOf(i) : i \in 1..(k - 1)}
                    /\ \A pk \in DOMAIN partition_tokens :
                        LET named == {i \in 1..(k - 1) : pkOf(i) = pk}
                        IN  IF named = {}
                            THEN partition_tokens[pk] = prev_tokens[pk]
                            ELSE LET last == CHOOSE i \in named : \A j \in named : j <= i
                                 IN  partition_tokens[pk] = PartitionFromStr(segs[last]).val

\* the store tracked partition 2 only; the call "10:1#2#1=5,2:x#7,1:1#3#1=2#2=1"
\* failed at its second segment: partition 10 is tracked now, partition 2 keeps
\* its token and partition 1, named by the third segment, is not tracked
C11_Witness ==
    /\ SetFailed
    /\ last_call.token = Pk10 \o <<":">> \o VecC \o <<",">>
                            \o Pk2 \o <<":", "x", "#", "7">> \o <<",">>
                            \o Pk1 \o <<":">> \o VecB
    /\ DOMAIN prev_tokens = {Pk2}
    /\ DOMAIN partition_tokens = {Pk2, Pk10}
    /\ partition_tokens[Pk10].vector_token = VectorFromStr(VecC).val
    /\ partition_tokens[Pk2] = prev_tokens[Pk2]
    /\ last_result = PartitionFromStr(Pk2 \o <<":", "x", "#", "7">>)

(***************************************************************************)
(* Properties of concurrent calls on one container session (SpecLock).     *)
(***************************************************************************)
WritePcs == {"write_locked", "write_unlock"}
ReadPcs == {"read_locked", "read_unlock"}

\* C12: on one container session a write (set_session_token, clear_session) is
\* never interleaved with another write or with a read.  A thread is inside a
\* write only as the one holder of the lock; when it is about to release, the
\* store and the result are those of the whole call applied at once to the
\* store the last write left; and what a getter read is what it can return for
\* the store some write left, or for the new store: it sees none or all of the
\* updates of a set_session_token, and the store before or the empty store after
\* a clear_session.
C12_WritesAreExclusive ==
    /\ \A t \in Threads :
        threads[t].pc \in WritePcs =>
            /\ lock = [writers |-> {t}, readers |-> {}]
            /\ \A u \in Threads \ {t} : threads[u].pc \notin WritePcs \cup ReadPcs
    /\ \A t \in Threads :
        threads[t].pc = "write_unlock" =>
            IF threads[t].call.op = "set_session_token"
            THEN LET outcome == SetSessionToken(committed, threads[t].call.token)
                 IN  /\ partition_tokens = outcome.map
                     /\ threads[t].result = outcome.result
            ELSE partition_tokens = EmptyMap
    /\ \A t \in Threads :
        threads[t].pc = "read_unlock" =>
            threads[t].result \in GetResults(committed, threads[t].call)
    /\ (\A t \in Threads : threads[t].pc \notin WritePcs) => partition_tokens = committed

\* thread 1 holds the write lock and has applied the first of the two updates
\* of "2:2#7,10:1#2#1=5" to a store that tracked both partitions with other
\* tokens, so the store is one no write left; thread 2, which returned from a
\* get_session_token that saw the store as the previous write left it, cannot
\* take the read lock now
C12_Witness ==
    /\ threads[1].pc = "write_locked"
    /\ threads[1].call = [op |-> "set_session_token",
                          token |-> Pk2 \o <<":">> \o VecA \o <<",">> \o Pk10 \o <<":">> \o VecC]
    /\ threads[1].i = 2
    /\ DOMAIN committed = {Pk2, Pk10}
    /\ committed[Pk2].vector_token = VectorFromStr(VecC).val
    /\ committed[Pk10].vector_token = VectorFromStr(VecA).val
    /\ partition_tokens[Pk2].vector_token = VectorFromStr(VecA).val
    /\ partition_tokens[Pk10].vector_token = VectorFromStr(VecA).val
    /\ threads[2].pc = "returned"
    /\ threads[2].call.op = "get_session_token"
    /\ threads[2].result \in GetSessionTokenResults(committed)
    /\ ~CanRead(lock)

(***************************************************************************)
(* Properties of the session registry (checked under SpecSession).         *)
(***************************************************************************)
\* no token of the container can be read from the registry
NothingReadable(sessions, container) ==
    LET map == IF container \in DOMAIN sessions THEN sessions[container] ELSE EmptyMap
    IN  /\ \A values_order \in Orders(DOMAIN map), region_orders \in RegionOrders(map) :
            SessionGetSessionToken(sessions, container, values_order, region_orders) = None
        /\ \A pk_range_id \in PkInputs :
            \A order \in (IF pk_range_id \in DOMAIN map
                          THEN Orders(DOMAIN map[pk_range_id].vector_token.regional_lsns)
                          ELSE {<<>>}) :
                SessionGetPartitionSessionToken(sessions, container, pk_range_id, order)
                    = None

OnUnknownContainer(ops) ==
    /\ session_call.op \in ops
    /\ session_call.container \notin DOMAIN prev_sessions

\* C13: set_session_token on the registry for a container that has no entry,
\* with a text that fails (the empty text, or a text of which some segment fails
\* to parse, also after segments that parsed), returns the error, leaves
\* container_count as it was and leaves no token readable for that container:
\* the registry is what it was before the call.
C13_FailedSetCreatesNoEntry ==
    (OnUnknownContainer({"set_session_token"}) /\ ~session_result.ok) =>
        /\ session_result = SetSessionToken(EmptyMap, session_call.token).result
        /\ session_call.token = <<>> => session_result = Err("EmptyInput", <<>>)
        /\ ContainerCount(container_sessions) = ContainerCount(prev_sessions)
        /\ session_call.container \notin DOMAIN container_sessions
        /\ NothingReadable(container_sessions, session_call.container)
        /\ container_sessions = prev_sessions

\* the registry knows collA; "2:2#7,2:x#7" for collB fails at its second
\* segment after the first one parsed, and the registry still counts one container
C13_Witness ==
    /\ OnUnknownContainer({"set_session_token"})
    /\ session_call.container = "collB"
    /\ session_call.token = Pk2 \o <<":">> \o VecA \o <<",">> \o Pk2 \o <<":", "x", "#", "7">>
    /\ ~session_result.ok
    /\ DOMAIN prev_sessions = {"collA"}
    /\ ContainerCount(container_sessions) = 1

\* C14: the entry of a container stays until the whole registry is cleared:
\* over set_session_token, the getters, container_count and clear_session no
\* entry goes away and container_count never gets lower; clear_session of a
\* known container removes its tokens (nothing is readable for it) and keeps
\* the entry counted; clear_all_sessions brings the count to zero.
C14_EntriesPersistUntilClearAll ==
    /\ session_call.op # "clear_all_sessions" =>
        /\ DOMAIN prev_sessions \subseteq DOMAIN container_sessions
        /\ ContainerCount(container_sessions) >= ContainerCount(prev_sessions)
    /\ (session_call.op = "clear_session"
            /\ session_call.container \in DOMAIN prev_sessions) =>
        /\ session_call.container \in DOMAIN container_sessions
        /\ ContainerCount(container_sessions) = ContainerCount(prev_sessions)
        /\ NothingReadable(container_sessions, session_call.container)
        /\ \A c \in DOMAIN prev_sessions \ {session_call.container} :
            container_sessions[c] = prev_sessions[c]
    /\ session_call.op = "clear_all_sessions" => ContainerCount(container_sessions) = 0

\* both containers held tokens; clear_session of collA left two entries, the one
\* of collA without tokens
C14_Witness ==
    /\ session_call = [op |-> "clear_session", container |-> "collA"]
    /\ DOMAIN prev_sessions = {"collA", "collB"}
    /\ DOMAIN prev_sessions["collA"] = {Pk2, Pk10}
    /\ DOMAIN prev_sessions["collB"] # {}
    /\ ContainerCount(container_sessions) = 2
    /\ container_sessions["collA"] = EmptyMap

\* C15: the getters and clear_session on a container without entry never fail
\* and never create an entry: the getters return None, clear_session does
\* nothing, and container_count and the tokens of the other containers are what
\* they were.
C15_UnknownContainerIsUntouched ==
    OnUnknownContainer({"get_session_token", "get_partition_session_token",
                        "clear_session"}) =>
        /\ session_call.op = "clear_session" => session_result = Ok(<<>>)
        /\ session_call.op # "clear_session" => session_result = None
        /\ session_call.container \notin DOMAIN container_sessions
        /\ ContainerCount(container_sessions) = ContainerCount(prev_sessions)
        /\ container_sessions = prev_sessions

\* the registry knows collA with tokens; clear_session of collB, which it does
\* not know, left it so
C15_Witness ==
    /\ OnUnknownContainer({"clear_session"})
    /\ session_call.container = "collB"
    /\ DOMAIN container_sessions = {"collA"}
    /\ DOMAIN container_sessions["collA"] = {Pk2, Pk10}

(***************************************************************************)
(* Properties of the query pipeline (SpecPipeline and SpecDriven).         *)
(***************************************************************************)
NextBatchReturned == pipeline_call.op = "next_batch"

Batch == pipeline_result.val

Unstarted(states) == {i \in 1..Len(states) : ~states[i].started}

\* C16: pipeline ordering safety: whenever next_batch is called while some
\* partition has not started, the batch has no items, no partition's buffer
\* changes, and the batch asks for every partition that has not started, from its
\* beginning; so a batch has items only when every partition has been given at
\* least one response, be it an empty one.
C16_NoItemsBeforeAllStarted ==
    NextBatchReturned =>
        /\ Unstarted(prev_pipeline.partition_states) # {} =>
            /\ Batch.items = <<>>
            /\ partition_states = prev_pipeline.partition_states
            /\ \A i \in Unstarted(prev_pipeline.partition_states) :
                \E k \in 1..Len(Batch.requests) :
                    Batch.requests[k] =
                        [partition_key_range_id |-> PartitionKeyRanges[i],
                         continuation |-> None]
        /\ Batch.items # <<>> => Unstarted(prev_pipeline.partition_states) = {}

\* partition "0" has two items buffered and partition "1" has not started:
\* the batch has no items and asks for both partitions
C16_Witness ==
    /\ NextBatchReturned
    /\ Unstarted(prev_pipeline.partition_states) = {2}
    /\ Len(prev_pipeline.partition_states[1].queue) = 2
    /\ Batch.items = <<>>
    /\ Len(Batch.requests) = 2
    /\ Len(partition_states[1].queue) = 2

\* the merge orders of a sequence of documents grow strictly
Increasing(documents) ==
    \A i, j \in 1..Len(documents) :
        i < j => documents[i].mergeOrder < documents[j].mergeOrder

\* C17: the output keeps the order key across partitions: when the pipeline has
\* been driven to completion over a server whose pages give each partition's
\* items in increasing merge order, the items of all batches, one batch after
\* the other, are in increasing merge order, however the server cut each
\* partition's items into pages.
C17_OutputIsIncreasing ==
    DrivenToCompletion => Increasing(emitted)

\* the documents of a partition's pages, one page after the other
RECURSIVE AllPages(_, _)
AllPages(pages, k) ==
    IF k > Len(pages) THEN <<>> ELSE pages[k] \o AllPages(pages, k + 1)

\* the emitted documents that belong to a partition, in the order of emission
EmittedOf(id) == SelectSeq(emitted, LAMBDA doc : doc.partitionKey = id)

\* the number of the documents of the partitions from the i-th on
RECURSIVE ItemCount(_)
ItemCount(i) ==
    IF i > Len(PartitionKeyRanges) THEN 0
    ELSE Len(AllPages(server[PartitionKeyRanges[i]], 1)) + ItemCount(i + 1)

\* C18: item conservation: no item is ever emitted twice, and when the pipeline
\* has been driven to completion every item of every page of the server has been
\* given to provide_data and emitted once: the emitted items of a partition are
\* the items of its pages, and the number of emitted items is the sum of the
\* partitions' item counts.
C18_ItemsAreConserved ==
    /\ \A i, j \in 1..Len(emitted) : i < j => emitted[i] # emitted[j]
    /\ DrivenToCompletion =>
        /\ \A id \in PartitionKeyRangeIds : EmittedOf(id) = AllPages(server[id], 1)
        /\ Len(emitted) = ItemCount(1)

\* the run is complete over a server that gave partition "0" the items 1 and 3
\* in two pages and partition "1" the item 2, and three items were emitted
C18_Witness ==
    /\ DrivenToCompletion
    /\ server["0"] = << <<Document("0", 1)>>, <<Document("0", 3)>> >>
    /\ server["1"] = << <<Document("1", 2)>> >>
    /\ Len(emitted) = 3

AllExhausted(states) == \A i \in 1..Len(states) : IsExhausted(states[i])

\* C19: a call of next_batch leaves completed true exactly when, as the call
\* began, every partition was exhausted, and returns the flag it leaves.  So
\* complete() is true only after a batch without items and without requests,
\* and never while a partition has not started, has buffered items or has a
\* continuation.
C19_CompletedIffAllExhaustedOnEntry ==
    /\ NextBatchReturned =>
        /\ Complete(Pipeline) <=> AllExhausted(prev_pipeline.partition_states)
        /\ Batch.completed = Complete(Pipeline)
    /\ Complete(Pipeline) =>
        /\ NextBatchReturned /\ Batch.items = <<>> /\ Batch.requests = <<>>
        /\ \A i \in 1..Len(partition_states) :
            /\ partition_states[i].started
            /\ partition_states[i].queue = <<>>
            /\ partition_states[i].next_continuation = None

\* the batch before this one emitted the last items and asked for nothing, and
\* left the pipeline not complete; this batch, begun with every partition
\* exhausted, completed it
C19_Witness ==
    /\ NextBatchReturned
    /\ Complete(Pipeline)
    /\ ~prev_pipeline.completed
    /\ prev_batch.ok
    /\ prev_batch.val.items # <<>>
    /\ prev_batch.val.requests = <<>>
    /\ ~prev_batch.val.completed
    /\ Len(emitted) = NumItems

\* next_batch has returned from a call made right after another call of it
SecondNextBatchReturned == NextBatchReturned /\ prev_batch.ok

\* C20 as stated: idempotent demand: a next_batch called again with no
\* provide_data in between returns no items and the requests of the first call
\* (same partitions, same continuations, same order), and leaves the state of
\* the pipeline as it was.
C20_SecondCallChangesNothing ==
    SecondNextBatchReturned =>
        /\ Batch.items = <<>>
        /\ Batch.requests = prev_batch.val.requests
        /\ Pipeline = prev_pipeline

\* C20, amended: a next_batch called again with no provide_data in between
\* returns no items and the requests of the first call (same partitions, same
\* continuations, same order), and leaves every partition's started flag, buffer
\* and continuation as they were; the completed flag is true after the second
\* call exactly when it was true before or the first call returned no requests,
\* so the second call is the one that completes a pipeline whose first call
\* emitted the last items.
C20_SecondCallRepeatsRequests ==
    SecondNextBatchReturned =>
        /\ Batch.items = <<>>
        /\ Batch.requests = prev_batch.val.requests
        /\ partition_states = prev_pipeline.partition_states
        /\ Complete(Pipeline) <=>
                (prev_pipeline.completed \/ prev_batch.val.requests = <<>>)
        /\ Batch.completed = Complete(Pipeline)

\* the first call emitted items and asked for the next page of a partition; the
\* second call emitted nothing and asked for the same page
C20_Witness ==
    /\ SecondNextBatchReturned
    /\ prev_batch.val.items # <<>>
    /\ Len(prev_batch.val.requests) = 1
    /\ prev_batch.val.requests[1].continuation = Some(2)
    /\ Batch.requests = prev_batch.val.requests
    /\ ~Complete(Pipeline)

\* the last call was a next_batch that returned completed with no items and no
\* requests, and the driver has stopped
FinalBatch ==
    /\ pipeline_call.op = "next_batch"
    /\ pipeline_result.val.completed
    /\ pipeline_result.val.items = <<>>
    /\ pipeline_result.val.requests = <<>>
    /\ DrivenToCompletion

\* C22: against the pipeline that emits nothing until every partition has
\* started, and a server whose partitions hold finitely many pages, the driver
\* loop reaches a next_batch that returns completed with no items and no
\* requests, and stops there for good.
C22_DriverTerminates == <>[]FinalBatch

\* the driver has stopped after the pipeline held back the first page of a
\* partition, every partition served MaxPages pages and every item came out
C22_Witness ==
    /\ FinalBatch
    /\ fetches = Len(PartitionKeyRanges) * MaxPages
    /\ Len(emitted) = NumItems
    /\ \A id \in PartitionKeyRangeIds : server[id][1] # <<>>

(***************************************************************************)
(* Properties of the query engine's stream (checked under SpecEngine).     *)
(***************************************************************************)
\* C21: an error is the last element of the stream: once an error has been
\* yielded, nothing more is yielded, the pipeline is not stepped again and no
\* further request is sent.
C21_ErrorIsTerminal ==
    first_error.some =>
        /\ Len(yielded) = first_error.val.yielded
        /\ steps = first_error.val.steps
        /\ sends = first_error.val.sends

(***************************************************************************)
(* Errors of parsing (checked under SpecParse).                            *)
(***************************************************************************)
Parsed == parse_pc # "start"

\* the text between the first '#' of a text and the next '#' or the end
GlobalLsnSegment(s) ==
    LET first == Find(s, "#", 1)
        second == Find(s, "#", first + 1)
    IN  SubSeq(s, first + 1, (IF second = 0 THEN Len(s) + 1 ELSE second) - 1)

\* C23: from_str fails with EmptyInput on the empty text, and with
\* MissingComponents on every text that has no '#' or whose global-LSN segment
\* is empty, as "1", "1#" and "1##5=3".
C23_EmptyGlobalLsnIsMissingComponents ==
    Parsed =>
        /\ text = <<>> => ~token.ok /\ token.err = "EmptyInput"
        /\ (text # <<>> /\ (Find(text, "#", 1) = 0 \/ GlobalLsnSegment(text) = <<>>)) =>
                ~token.ok /\ token.err = "MissingComponents"

\* the value of a text of decimal digits
RECURSIVE DecimalValue(_)
DecimalValue(s) ==
    IF s = <<>> THEN 0
    ELSE DecimalValue(SubSeq(s, 1, Len(s) - 1)) * 10 + DigitVal(s[Len(s)])

\* a non-empty text of decimal digits whose value is at most max
IsNumberUpTo(s, max) ==
    /\ s # <<>>
    /\ \A i \in 1..Len(s) : s[i] \in Digits
    /\ DecimalValue(s) <= max

\* the fields of a token text: the text before the first '#', the global-LSN
\* segment, and the two sides of the '=' of the first regional component
VersionField(s) == SubSeq(s, 1, Find(s, "#", 1) - 1)

FirstComponent(s) ==
    LET first == Find(s, "#", 1)
        second == Find(s, "#", first + 1)
        third == Find(s, "#", second + 1)
    IN  SubSeq(s, second + 1, (IF third = 0 THEN Len(s) + 1 ELSE third) - 1)

RegionIdField(s) == SubSeq(FirstComponent(s), 1, Find(FirstComponent(s), "=", 1) - 1)

RegionLsnField(s) ==
    SubSeq(FirstComponent(s), Find(FirstComponent(s), "=", 1) + 1, Len(FirstComponent(s)))

\* the text has a '#', and something after it
HasGlobalLsnField(s) == Find(s, "#", 1) # 0 /\ Find(s, "#", 1) < Len(s)

\* the text has a first regional component with text on both sides of an '='
HasFirstComponent(s) ==
    /\ HasGlobalLsnField(s)
    /\ Find(s, "#", Find(s, "#", 1) + 1) # 0
    /\ Find(FirstComponent(s), "=", 1) # 0
    /\ RegionIdField(s) # <<>>
    /\ RegionLsnField(s) # <<>>

\* from_str failed with an error of a kind
FailedWith(kind) == ~token.ok /\ token.err = kind

\* C24: a numeric field is accepted exactly when it is a text of digits whose
\* value is at most the largest value of its width (64 bits for the version, the
\* global LSN and a region LSN, 32 bits for a region id); a field that is not,
\* be it one above the largest value or holding another character, fails
\* from_str with the error of that field, and an accepted field has its decimal
\* value, never a wrapped one.
C24_NumbersAreCheckedForOverflow ==
    (Parsed /\ Find(text, "#", 1) # 0) =>
        /\ IF IsNumberUpTo(VersionField(text), MaxU64)
           THEN /\ ~FailedWith("InvalidVersion")
                /\ token.ok => token.val.version = DecimalValue(VersionField(text))
           ELSE token = Err("InvalidVersion", VersionField(text))
        /\ (IsNumberUpTo(VersionField(text), MaxU64) /\ HasGlobalLsnField(text)) =>
                IF IsNumberUpTo(GlobalLsnSegment(text), MaxU64)
                THEN /\ ~FailedWith("InvalidGlobalLsn")
                     /\ token.ok =>
                            token.val.global_lsn = DecimalValue(GlobalLsnSegment(text))
                ELSE token = Err("InvalidGlobalLsn", GlobalLsnSegment(text))
        /\ ( /\ IsNumberUpTo(VersionField(text), MaxU64)
             /\ HasFirstComponent(text)
             /\ IsNumberUpTo(GlobalLsnSegment(text), MaxU64) ) =>
                IF ~IsNumberUpTo(RegionIdField(text), MaxU32)
                THEN token = Err("InvalidRegionId", RegionIdField(text))
                ELSE IF ~IsNumberUpTo(RegionLsnField(text), MaxU64)
                THEN token = Err("InvalidRegionLsn", RegionLsnField(text))
                ELSE token.ok =>
                        /\ DecimalValue(RegionIdField(text)) \in DOMAIN token.val.regional_lsns
                        /\ \A r \in DOMAIN token.val.regional_lsns :
                                r <= MaxU32 /\ token.val.regional_lsns[r] <= MaxU64

\* the largest values were accepted in every field, with their values
C24_Witness ==
    /\ Parsed
    /\ text = FormatNum(MaxU64) \o <<"#">> \o FormatNum(MaxU64) \o <<"#">>
                \o FormatNum(MaxU32) \o <<"=">> \o FormatNum(MaxU64)
    /\ token = Ok(VectorSessionToken(MaxU64, MaxU64,
                                     Insert(EmptyMap, MaxU32, MaxU64)))

\* the regional components of an accepted token text, in the order of the text:
\* the fields after the second '#', each with the values of the two sides of
\* its '='
RegionalComponents(s) ==
    LET fields == Split(s, "#", 1)
        written == {k \in 3..Len(fields) : fields[k] # <<>>}
    IN  [k \in 1..Cardinality(written) |->
            LET sides == Split(fields[k + 2], "=", 1)
            IN  [region_id |-> DecimalValue(sides[1]), region_lsn |-> DecimalValue(sides[2])]]

\* some region id is written more than once in the text
NamesARegionTwice(s) ==
    \E i, j \in 1..Len(RegionalComponents(s)) :
        i < j /\ RegionalComponents(s)[i].region_id = RegionalComponents(s)[j].region_id

\* every field of the text is valid: a version, a global LSN and regional
\* components "<id>=<lsn>" of numbers within their widths, with at most one
\* '#' after the last of them
HasValidFields(s) ==
    LET fields == Split(s, "#", 1)
    IN  /\ Len(fields) >= 2
        /\ IsNumberUpTo(fields[1], MaxU64)
        /\ IsNumberUpTo(fields[2], MaxU64)
        /\ \A k \in 3..Len(fields) :
                \/ fields[k] = <<>> /\ k = Len(fields)
                \/ LET sides == Split(fields[k], "=", 1)
                   IN  /\ Len(sides) = 2
                       /\ IsNumberUpTo(sides[1], MaxU32)
                       /\ IsNumberUpTo(sides[2], MaxU64)

\* C25: when from_str accepts a text, the token holds exactly the region ids the
\* text names, each once, and the LSN of a region is the one of its last
\* component in the text, whatever LSN an earlier component gave it; a text
\* that names a region twice is accepted when its fields are valid.
C25_LastRegionWins ==
    Parsed =>
        /\ token.ok =>
            LET components == RegionalComponents(text)
            IN  /\ DOMAIN token.val.regional_lsns =
                        {components[i].region_id : i \in 1..Len(components)}
                /\ \A i \in 1..Len(components) :
                        (\A j \in (i + 1)..Len(components) :
                            components[j].region_id # components[i].region_id)
                        => token.val.regional_lsns[components[i].region_id]
                                = components[i].region_lsn
        /\ HasValidFields(text) => token.ok

\* "1#7#1=10#01=3" names region 1 twice, first with the higher LSN; the token
\* holds region 1 once, with the LSN 3
C25_Witness ==
    /\ Parsed
    /\ text = <<"1", "#", "7", "#", "1", "=", "1", "0", "#", "0", "1", "=", "3">>
    /\ NamesARegionTwice(text)
    /\ HasValidFields(text)
    /\ token = Ok(VectorSessionToken(1, 7, Insert(EmptyMap, 1, 3)))

(***************************************************************************)
(* Order of the tokens (checked under SpecOrder).                          *)
(***************************************************************************)
Compared == order_pc = "compared"

\* C26: can_advance_to is a partial order on the tokens it compares: a token can
\* advance to itself; two tokens that can advance to each other are equal; and
\* when a can advance to b and b to c, the comparison of a with c gives true,
\* neither false nor an error.
C26_CanAdvanceToIsAPartialOrder ==
    Compared =>
        /\ advance.aa = Ok(TRUE)
        /\ (advance.ab = Ok(TRUE) /\ advance.ba = Ok(TRUE)) => token_a = token_b
        /\ (advance.ab = Ok(TRUE) /\ advance.bc = Ok(TRUE)) => advance.ac = Ok(TRUE)

\* a chain through a change of version and of region key-set: a has no region,
\* b and c have the next version and region 1, and c is ahead of b
C26_Witness ==
    /\ Compared
    /\ token_a = VectorSessionToken(1, 2, EmptyMap)
    /\ token_b = VectorSessionToken(2, 1, Insert(EmptyMap, 1, 1))
    /\ token_c = VectorSessionToken(2, 2, Insert(EmptyMap, 1, 2))
    /\ advance.ab = Ok(TRUE) /\ advance.bc = Ok(TRUE) /\ advance.ac = Ok(TRUE)
    /\ advance.ba = Ok(FALSE)

(***************************************************************************)
(* Input handling of the container session (checked under SpecContainer).  *)
(***************************************************************************)
\* a text without the whitespace before its first and after its last character
\* that is not whitespace
Stripped(s) ==
    LET inked == {i \in 1..Len(s) : s[i] # " "}
    IN  IF inked = {} THEN <<>>
        ELSE SubSeq(s, CHOOSE i \in inked : \A j \in inked : i <= j,
                       CHOOSE i \in inked : \A j \in inked : j <= i)

\* the segments of a container token text that are left after stripping
WrittenSegments(token_text) ==
    LET pieces == Split(token_text, ",", 1)
    IN  SelectSeq([i \in 1..Len(pieces) |-> Stripped(pieces[i])], LAMBDA seg : seg # <<>>)

\* what a written segment makes of the call: MissingComponents without a ':' or
\* with nothing before or after its first ':', else the error of its suffix as
\* a vector token, else no error
SegmentOutcome(seg) ==
    LET colon == Find(seg, ":", 1)
    IN  IF colon = 0 \/ colon = 1 \/ colon = Len(seg) THEN Err("MissingComponents", <<>>)
        ELSE IF ~VectorFromStr(SubSeq(seg, colon + 1, Len(seg))).ok
        THEN VectorFromStr(SubSeq(seg, colon + 1, Len(seg)))
        ELSE Ok(<<>>)

\* C27: set_session_token on the empty text fails with EmptyInput and changes
\* nothing; on another text the segments between the commas are stripped of
\* surrounding whitespace and the empty ones skipped; the call fails at the
\* first segment left that has no ':', nothing before its first ':' or nothing
\* after it, with MissingComponents, or whose suffix is no vector token, with the
\* error of the vector token's parse unchanged; and it succeeds when there is no
\* such segment.
C27_SetSessionTokenInputHandling ==
    last_call.op = "set_session_token" =>
        LET segs == WrittenSegments(last_call.token)
            failing == {i \in 1..Len(segs) : ~SegmentOutcome(segs[i]).ok}
        IN  IF last_call.token = <<>>
            THEN last_result = Err("EmptyInput", <<>>) /\ partition_tokens = prev_tokens
            ELSE IF failing = {} THEN last_result = Ok(<<>>)
            ELSE last_result =
                    SegmentOutcome(segs[CHOOSE i \in failing : \A j \in failing : i <= j])

\* " , 10:2#7 " has a segment of whitespace only, which is skipped, and a
\* segment with whitespace around it, which is stored for partition 10
C27_Witness ==
    /\ last_call.op = "set_session_token"
    /\ last_call.token = <<" ", ",", " ", "1", "0", ":", "2", "#", "7", " ">>
    /\ last_result = Ok(<<>>)
    /\ Pk10 \in DOMAIN partition_tokens
    /\ Pk10 \notin DOMAIN prev_tokens

(***************************************************************************)
(* Clearing of the session registry (checked under SpecSession).           *)
(***************************************************************************)
SuccessfulSet == session_call.op = "set_session_token" /\ session_result.ok

\* C28: clear_all_sessions empties the registry: after it container_count is 0
\* and no token is readable for any container and partition, and this stays so
\* over every call but a set_session_token that succeeds: a getter on the empty
\* registry returns None and container_count 0.  And clear_session of a
\* container leaves nothing readable for it, neither its container token nor
\* the token of a partition.
C28_ClearedMeansNothingReadable ==
    /\ session_call.op = "clear_all_sessions" =>
        /\ container_sessions = EmptyMap
        /\ ContainerCount(container_sessions) = 0
        /\ \A c \in ResourceIds : NothingReadable(container_sessions, c)
    /\ (prev_sessions = EmptyMap /\ ~SuccessfulSet) =>
        /\ container_sessions = EmptyMap
        /\ ContainerCount(container_sessions) = 0
        /\ \A c \in ResourceIds : NothingReadable(container_sessions, c)
        /\ session_call.op \in {"get_session_token", "get_partition_session_token"} =>
                session_result = None
        /\ session_call.op = "container_count" => session_result = Ok(0)
    /\ session_call.op = "clear_session" =>
        NothingReadable(container_sessions, session_call.container)

\* both containers held tokens and clear_all_sessions left none
C28_Witness ==
    /\ session_call.op = "clear_all_sessions"
    /\ DOMAIN prev_sessions = {"collA", "collB"}
    /\ DOMAIN prev_sessions["collA"] = {Pk2, Pk10}
    /\ DOMAIN prev_sessions["collB"] = {Pk2}
    /\ ContainerCount(container_sessions) = 0
    /\ \A c \in ResourceIds : NothingReadable(container_sessions, c)

(***************************************************************************)
(* Requests and provided data of the pipeline (checked under SpecPipeline).*)
(***************************************************************************)
\* a partition that is asked for: it has not started, or it has buffered items,
\* or it has a continuation
AskedFor(partition_state) ==
    \/ ~partition_state.started
    \/ partition_state.queue # <<>>
    \/ partition_state.next_continuation.some

\* C29: the requests of a batch are, in the order of the partitions, one request
\* for each partition that after the drain of the call has not started, holds
\* buffered items or has a continuation, with the continuation of that
\* partition (none for a partition that has not started); a partition that is
\* exhausted gets no request.
C29_RequestsAreTheUnexhaustedPartitions ==
    NextBatchReturned =>
        /\ \A i \in 1..Len(partition_states) :
            LET asking == {k \in 1..Len(Batch.requests) :
                            Batch.requests[k].partition_key_range_id
                                = partition_states[i].partition_key_range}
            IN  /\ Cardinality(asking) = IF AskedFor(partition_states[i]) THEN 1 ELSE 0
                /\ IsExhausted(partition_states[i]) => asking = {}
                /\ \A k \in asking :
                    /\ Batch.requests[k].continuation
                            = partition_states[i].next_continuation
                    /\ ~partition_states[i].started =>
                            Batch.requests[k].continuation = None
        /\ \A k \in 1..Len(Batch.requests) :
                Batch.requests[k].partition_key_range_id \in PartitionKeyRangeIds
        /\ \A k, l \in 1..Len(Batch.requests) :
                k < l =>
                    \E i, j \in 1..Len(partition_states) :
                        /\ i < j
                        /\ partition_states[i].partition_key_range
                                = Batch.requests[k].partition_key_range_id
                        /\ partition_states[j].partition_key_range
                                = Batch.requests[l].partition_key_range_id

\* partition "1" has not started, so nothing was drained: the batch asks for
\* partition "0", which holds its only page in its buffer and has no
\* continuation, and for partition "1", both from the beginning
C29_Witness ==
    /\ NextBatchReturned
    /\ partition_states[1].started
    /\ partition_states[1].queue # <<>>
    /\ partition_states[1].next_continuation = None
    /\ ~partition_states[2].started
    /\ Batch.requests = <<[partition_key_range_id |-> "0", continuation |-> None],
                          [partition_key_range_id |-> "1", continuation |-> None]>>

ProvideDataReturned == pipeline_call.op = "provide_data"

\* the partitions with the id the data is for
Named(states, data) ==
    {i \in 1..Len(states) : states[i].partition_key_range = data.partition_key_range_id}

\* C30: provide_data for a partition of the pipeline returns without error and
\* leaves that partition started, with the continuation of the response (none
\* when the response has none) and with the items of the page behind the items
\* its buffer held, in the order of the page; the other partitions and the
\* completed flag are as they were.  And no call ever leaves a partition not
\* started that had started.
C30_ProvideDataUpdatesOnePartition ==
    /\ (ProvideDataReturned /\ Named(prev_pipeline.partition_states, pipeline_call.data) # {})
        => /\ pipeline_result = Ok(<<>>)
           /\ Len(partition_states) = Len(prev_pipeline.partition_states)
           /\ completed = prev_pipeline.completed
           /\ \A i \in 1..Len(partition_states) :
                LET before == prev_pipeline.partition_states[i]
                    data == pipeline_call.data
                IN  IF i \in Named(prev_pipeline.partition_states, data)
                    THEN /\ partition_states[i].started
                         /\ partition_states[i].next_continuation = data.next_continuation
                         /\ partition_states[i].queue =
                                before.queue \o [k \in 1..Len(data.data) |->
                                                    FromJson(data.data[k])]
                         /\ partition_states[i].partition_key_range
                                = before.partition_key_range
                    ELSE partition_states[i] = before
    /\ \A i \in 1..Len(partition_states) :
            prev_pipeline.partition_states[i].started => partition_states[i].started

\* partition "0" held its first page in its buffer, with a continuation, while
\* partition "1" had not started; the second page came without a continuation:
\* its items are behind those of the first page and the continuation is gone
C30_Witness ==
    /\ ProvideDataReturned
    /\ pipeline_call.data.partition_key_range_id = "0"
    /\ pipeline_call.data.data # <<>>
    /\ pipeline_call.data.next_continuation = None
    /\ prev_pipeline.partition_states[1].started
    /\ prev_pipeline.partition_states[1].queue # <<>>
    /\ prev_pipeline.partition_states[1].next_continuation.some
    /\ partition_states[1].next_continuation = None
    /\ Len(partition_states[1].queue)
            = Len(prev_pipeline.partition_states[1].queue) + Len(pipeline_call.data.data)
    /\ ~partition_states[2].started

(***************************************************************************)
(* Properties of the query engine's requests (checked under SpecEngine).   *)
(***************************************************************************)
\* the requests named by the last step have all been answered: one request
\* sent per partition in the order of the batch, with the partition's id and
\* continuation, and each response given to the pipeline under the same id
AllAnswered ==
    /\ Len(sent) = Len(requested)
    /\ Len(enqueued) = Len(requested)
    /\ \A i \in 1..Len(requested) :
            /\ sent[i].partition_key_range_id = requested[i].partition_key_range_id
            /\ sent[i].continuation = requested[i].continuation
            /\ sent[i].response.some
            /\ enqueued[i].partition_key_range_id = requested[i].partition_key_range_id
            /\ enqueued[i].items = sent[i].response.val.items
            /\ enqueued[i].continuation = sent[i].response.val.continuation

\* C31: between two consecutive pipeline steps the driver answers every request
\* returned by the earlier step: whenever the pipeline is about to be stepped
\* again, one request has been sent for each requested partition, in request
\* order and with the request's continuation, and the response's items and
\* continuation have been given to the pipeline for the same partition id.
\* The stream does not keep to it: after an error in the Running state the
\* next poll steps the pipeline with requests of the earlier step unanswered.
C31_RequestsAnsweredBeforeNextStep ==
    (engine_pc = "step_pipeline" /\ steps > 0) => AllAnswered

(***************************************************************************)
(* Properties of the query engine's states (checked under SpecEngine).     *)
(***************************************************************************)
StateRank(state) ==
    CASE state = "Initial" -> 0 [] state = "Running" -> 1 [] state = "Done" -> 2

\* C32: the driver goes through Initial, Running, Done and never backwards; the
\* query plan and the partition key ranges are fetched at most once each, in
\* the Initial state, the plan first, and both have been fetched once before
\* any per-partition request is sent; the state is Running only after a
\* pipeline was built; and in the Done state a poll yields nothing
C32_StatesOnlyMoveForward ==
    /\ [](/\ engine_state \in {"Initial", "Running", "Done"}
          /\ plans <= 1 /\ ranges <= plans /\ pipelines <= ranges
          /\ (sends > plans + ranges => plans = 1 /\ ranges = 1)
          /\ (sent # <<>> => plans = 1 /\ ranges = 1)
          /\ (engine_state = "Running" => plans = 1 /\ ranges = 1 /\ pipelines = 1))
    /\ [][/\ StateRank(engine_state') >= StateRank(engine_state)
          /\ (plans' # plans \/ ranges' # ranges =>
                    engine_state = "Initial" /\ sends = plans + ranges)
          /\ (engine_state = "Done" => yielded' = yielded /\ steps' = steps
                                        /\ sends' = sends /\ engine_state' = "Done")]_vars

\* the stream in the Running state with a per-partition request sent
C32_Witness ==
    /\ engine_state = "Running"
    /\ sent # <<>>
    /\ plans = 1 /\ ranges = 1 /\ pipelines = 1

(***************************************************************************)
(* Properties of the shared session registry (checked under SpecRegistry   *)
(* and, for termination, under SpecRegistryFair).                          *)
(***************************************************************************)
AllReturned == \A t \in Threads : callers[t].pc = "returned"

IsSet(t) == callers[t].call.op = "set_session_token"

ReadsOnly(t) ==
    callers[t].call.op \in
        {"get_session_token", "get_partition_session_token", "container_count"}

\* the tokens a text holds: what a new container session holds after taking it
TokensOf(token_text) == SetSessionToken(EmptyMap, token_text).map

ValidText(token_text) == SetSessionToken(EmptyMap, token_text).result.ok

\* two threads have set valid texts for the same container, which had no entry,
\* while the other threads only read
CreatedTogether(t1, t2) ==
    /\ t1 # t2
    /\ AllReturned
    /\ IsSet(t1) /\ IsSet(t2)
    /\ callers[t1].call.container = callers[t2].call.container
    /\ callers[t1].call.container \notin DOMAIN sessions_at_start
    /\ ValidText(callers[t1].call.token) /\ ValidText(callers[t2].call.token)
    /\ \A t \in Threads \ {t1, t2} : ReadsOnly(t)

\* C33: when two threads concurrently call set_session_token with valid texts
\* for the same container that has no entry yet, both calls succeed, exactly
\* one entry for the container exists afterwards (the count grows by one) and
\* it holds the tokens of both calls: every partition named by either text,
\* each with the value one of the calls gave it, as if one call had followed
\* the other
C33_ConcurrentCreationKeepsBoth ==
    \A t1, t2 \in Threads :
        CreatedTogether(t1, t2) =>
            LET container == callers[t1].call.container
                first == callers[t1].call.token
                second == callers[t2].call.token
            IN  /\ callers[t1].result = Ok(<<>>) /\ callers[t2].result = Ok(<<>>)
                /\ DOMAIN shared_sessions = DOMAIN sessions_at_start \cup {container}
                /\ ContainerCount(shared_sessions) = ContainerCount(sessions_at_start) + 1
                /\ \A c \in DOMAIN sessions_at_start :
                        shared_sessions[c] = sessions_at_start[c]
                /\ DOMAIN shared_sessions[container] =
                        DOMAIN TokensOf(first) \cup DOMAIN TokensOf(second)
                /\ \A pk \in DOMAIN shared_sessions[container] :
                        shared_sessions[container][pk] \in
                            {tokens[pk] : tokens \in {m \in {TokensOf(first), TokensOf(second)} :
                                                        pk \in DOMAIN m}}
                /\ shared_sessions[container] \in
                        {SetSessionToken(TokensOf(first), second).map,
                         SetSessionToken(TokensOf(second), first).map}

\* two threads have made the entry of collA together, one with a token of
\* partition 2 and one with a token of partition 10, and both tokens are there
C33_Witness ==
    /\ CreatedTogether(1, 2)
    /\ callers[1].call = [op |-> "set_session_token", container |-> "collA",
                          token |-> Pk2 \o <<":">> \o VecA]
    /\ callers[2].call = [op |-> "set_session_token", container |-> "collA",
                          token |-> Pk10 \o <<":">> \o VecC]
    /\ DOMAIN shared_sessions = {"collA"}
    /\ DOMAIN shared_sessions["collA"] = {Pk2, Pk10}

\* a thread is inside a method of a container session
InContainer(t) ==
    callers[t].pc \in {"container_lock", "container_locked", "container_unlock"}

\* one thread has called set_session_token and another clear_all_sessions,
\* while the other threads only read
SetBesideClearAll(t1, t2) ==
    /\ t1 # t2
    /\ AllReturned
    /\ IsSet(t1)
    /\ callers[t2].call.op = "clear_all_sessions"
    /\ \A t \in Threads \ {t1, t2} : ReadsOnly(t)

\* C34: set_session_token(c, t) running concurrently with clear_all_sessions
\* is linearizable: the final registry is the result of one of the two serial
\* orders, that is empty, or only the container c holding exactly the tokens
\* of t; the set returns what it returns when run alone; tokens c held before
\* the clear never survive it; and a thread inside a method of a container
\* session always works on a session the registry still holds
C34_SetAndClearAllAreLinearizable ==
    /\ \A t \in Threads :
            InContainer(t) =>
                /\ callers[t].call.container \in DOMAIN shared_sessions
                /\ callers[t].call.container \in DOMAIN container_locks
    /\ \A t1, t2 \in Threads :
            SetBesideClearAll(t1, t2) =>
                LET container == callers[t1].call.container
                    token_text == callers[t1].call.token
                    set_first == ClearAllSessions(
                        SessionSetSessionToken(sessions_at_start, container,
                                               token_text).sessions)
                    clear_first == SessionSetSessionToken(
                        ClearAllSessions(sessions_at_start), container, token_text)
                IN  /\ shared_sessions \in {set_first, clear_first.sessions}
                    /\ callers[t1].result = clear_first.result
                    /\ callers[t2].result = Ok(<<>>)
                    /\ \/ shared_sessions = EmptyMap
                       \/ /\ callers[t1].result = Ok(<<>>)
                          /\ DOMAIN shared_sessions = {container}
                          /\ shared_sessions[container] = TokensOf(token_text)

\* a registry that held a token of partition 1 for collA was cleared by one
\* thread while another set a token of partition 2 for collA; the set came
\* last and collA holds the token of partition 2 only
C34_Witness ==
    /\ SetBesideClearAll(1, 2)
    /\ "collA" \in DOMAIN sessions_at_start
    /\ callers[1].call = [op |-> "set_session_token", container |-> "collA",
                          token |-> Pk2 \o <<":">> \o VecA]
    /\ DOMAIN shared_sessions = {"collA"}
    /\ DOMAIN shared_sessions["collA"] = {Pk2}

\* the locks a thread holds
HoldsSessions(t) == t \in sessions_lock.readers \cup sessions_lock.writers

HoldsContainer(t, c) == t \in container_locks[c].readers \cup container_locks[c].writers

\* the registry's lock is taken before a container session's lock: a thread
\* that holds or waits for a container session's lock holds the registry's
\* lock, and a thread that waits for the registry's lock holds no lock at all
\* (set_session_token has dropped its read guard before it asks for the write
\* lock)
LockOrder ==
    \A t \in Threads :
        /\ \A c \in DOMAIN container_locks : HoldsContainer(t, c) => HoldsSessions(t)
        /\ InContainer(t) => HoldsSessions(t)
        /\ callers[t].pc \in {"called", "sessions_upgrade", "returned"} =>
                /\ ~HoldsSessions(t)
                /\ \A c \in DOMAIN container_locks : ~HoldsContainer(t, c)

\* C35: the session stores are deadlock-free: locks are always taken registry
\* first and container second, no thread asks for the registry's write lock
\* while it holds the registry's read lock, and under fair scheduling every
\* call of set_session_token, get_session_token, get_partition_session_token,
\* clear_session, clear_all_sessions and container_count returns in the end
C35_EveryCallReturns ==
    /\ []LockOrder
    /\ <>[]AllReturned

\* every thread has returned, one of them from a set_session_token that found
\* no entry, dropped the read lock and made the entry under the write lock,
\* another from a clear_session of the same container
C35_Witness ==
    /\ AllReturned
    /\ sessions_lock = FreeLock
    /\ sessions_at_start = EmptyMap
    /\ callers[1].call.op = "set_session_token"
    /\ callers[1].result = Ok(<<>>)
    /\ callers[2].call.op = "clear_session"
    /\ "collA" \in DOMAIN shared_sessions

(***************************************************************************)
(* Grouping of merges (checked under SpecGrouping).                        *)
(***************************************************************************)
BothGroupingsSucceeded ==
    /\ order_pc = "grouped"
    /\ grouped.left.ok /\ grouped.right.ok

\* the versions of the three tokens are pairwise different
ThreeVersions ==
    Cardinality({token_a.version, token_b.version, token_c.version}) = 3

\* of three tokens with pairwise different versions, the ones with the highest,
\* the middle and the lowest version
Highest == CHOOSE t \in {token_a, token_b, token_c} :
                \A u \in {token_a, token_b, token_c} : u.version <= t.version
Lowest == CHOOSE t \in {token_a, token_b, token_c} :
                \A u \in {token_a, token_b, token_c} : u.version >= t.version
Middle == CHOOSE t \in {token_a, token_b, token_c} :
                t.version # Highest.version /\ t.version # Lowest.version

\* C36 as stated: wherever both groupings succeed, Merge(Merge(a,b),c) equals
\* Merge(a,Merge(b,c)), for tokens of equal or differing versions
C36_MergeIsAssociative ==
    BothGroupingsSucceeded => grouped.left.val = grouped.right.val

\* C36 amended: wherever both groupings succeed the two results have the same
\* version, global LSN and region key-set, and they are equal unless the three
\* versions are pairwise different; then they can differ only in the LSN of a
\* region that the tokens of highest and lowest version hold and the token of
\* middle version does not
C36_MergeIsAssociativeUpToTwoVersions ==
    BothGroupingsSucceeded =>
        LET left == grouped.left.val
            right == grouped.right.val
        IN  /\ left.version = right.version
            /\ left.global_lsn = right.global_lsn
            /\ DOMAIN left.regional_lsns = DOMAIN right.regional_lsns
            /\ ~ThreeVersions => left = right
            /\ \A r \in DOMAIN left.regional_lsns :
                    left.regional_lsns[r] # right.regional_lsns[r] =>
                        /\ ThreeVersions
                        /\ r \in DOMAIN Highest.regional_lsns
                        /\ r \in DOMAIN Lowest.regional_lsns
                        /\ r \notin DOMAIN Middle.regional_lsns

\* three tokens of two versions merged to the same token in both groupings:
\* the LSN of region 1 of a lower-version token is kept by the higher version
C36_Witness ==
    /\ BothGroupingsSucceeded
    /\ token_a = VectorSessionToken(1, 2, Insert(EmptyMap, 1, 2))
    /\ token_b = VectorSessionToken(2, 1, Insert(EmptyMap, 1, 1))
    /\ token_c = VectorSessionToken(1, 1, Insert(EmptyMap, 1, 1))
    /\ grouped.left = Ok(VectorSessionToken(2, 1, Insert(EmptyMap, 1, 2)))
    /\ grouped.right = grouped.left

(***************************************************************************)
(* Frame of the registry's calls (checked under SpecSession).              *)
(***************************************************************************)
\* the partitions a container token text names
NamedPartitions(token_text) ==
    LET segs == TrimmedSegments(token_text)
    IN  {PartitionFromStr(segs[i]).val.pkrange_id :
            i \in {j \in 1..Len(segs) : segs[j] # <<>> /\ PartitionFromStr(segs[j]).ok}}

\* the store of a container in a registry, empty when the registry has no entry
StoreOf(sessions, container) ==
    IF container \in DOMAIN sessions THEN sessions[container] ELSE EmptyMap

\* C37: frame of set_session_token: a successful set_session_token leaves the
\* entry of every partition the text does not name as it was (present with the
\* same token, or absent), and set_session_token and clear_session on a
\* container leave every other container as it was: in the registry or not,
\* and with the same tokens
C37_SetSessionTokenFrame ==
    /\ (session_call.op = "set_session_token" /\ session_result.ok) =>
            LET container == session_call.container
                before == StoreOf(prev_sessions, container)
                after == StoreOf(container_sessions, container)
            IN  \A pk \in (DOMAIN before \cup DOMAIN after)
                            \ NamedPartitions(session_call.token) :
                    /\ pk \in DOMAIN before /\ pk \in DOMAIN after
                    /\ after[pk] = before[pk]
    /\ session_call.op \in {"set_session_token", "clear_session"} =>
            \A other \in (DOMAIN prev_sessions \cup DOMAIN container_sessions)
                            \ {session_call.container} :
                /\ other \in DOMAIN prev_sessions /\ other \in DOMAIN container_sessions
                /\ container_sessions[other] = prev_sessions[other]

\* collA held tokens of the partitions 2 and 10 and collB a token; a set of
\* partition 2 for collA changed that token and left partition 10 and collB alone
C37_Witness ==
    /\ session_call.op = "set_session_token" /\ session_result.ok
    /\ session_call.container = "collA"
    /\ NamedPartitions(session_call.token) = {Pk2}
    /\ DOMAIN prev_sessions = {"collA", "collB"}
    /\ DOMAIN prev_sessions["collA"] = {Pk2, Pk10}
    /\ DOMAIN prev_sessions["collB"] # {}
    /\ container_sessions["collA"][Pk2] # prev_sessions["collA"][Pk2]
    /\ container_sessions["collA"][Pk10] = prev_sessions["collA"][Pk10]
    /\ container_sessions["collB"] = prev_sessions["collB"]

(***************************************************************************)
(* provide_data with data the pipeline cannot take (checked under          *)
(* SpecStray).                                                             *)
(***************************************************************************)
\* the call was a provide_data for a partition that is not in the pipeline's
\* partition map, or with a payload that does not decode
StrayDataProvided ==
    /\ ProvideDataReturned
    /\ \/ Named(prev_pipeline.partition_states, pipeline_call.data) = {}
       \/ ~Decodes(pipeline_call.data.data)

\* C38: provide_data naming a partition that is not in the pipeline's
\* partition map, or carrying a payload that does not decode, returns an error
\* and leaves every partition's started flag, buffer and continuation, and the
\* completed flag, as they were
C38_StrayDataChangesNothing ==
    StrayDataProvided =>
        /\ ~pipeline_result.ok
        /\ partition_states = prev_pipeline.partition_states
        /\ completed = prev_pipeline.completed

\* a page for the unknown partition "7" was refused while partition "0" held
\* items in its buffer and a continuation
C38_Witness ==
    /\ StrayDataProvided
    /\ Decodes(pipeline_call.data.data)
    /\ pipeline_call.data.partition_key_range_id = "7"
    /\ pipeline_result = Err("Other", "7")
    /\ partition_states[1].started
    /\ partition_states[1].queue # <<>>
    /\ partition_states[1].next_continuation.some

\* a payload that does not decode was refused for the known partition "0" that
\* had not started
C38_WitnessUndecodable ==
    /\ StrayDataProvided
    /\ ~Decodes(pipeline_call.data.data)
    /\ pipeline_call.data.partition_key_range_id = "0"
    /\ ~pipeline_result.ok
    /\ ~partition_states[1].started

(***************************************************************************)
(* One call of next_batch over any buffers (checked under SpecBatch).      *)
(***************************************************************************)
\* the merge orders of a sequence of buffered items never fall
Nondecreasing(merge_orders) ==
    \A i, j \in 1..Len(merge_orders) : i < j => merge_orders[i] <= merge_orders[j]

MergeOrdersOf(queue) == [k \in 1..Len(queue) |-> queue[k].merge_order]

\* every partition had started and every buffer was in nondecreasing order as
\* the call began
StartedAndSorted(states) ==
    \A i \in 1..Len(states) :
        states[i].started /\ Nondecreasing(MergeOrdersOf(states[i].queue))

\* what is left of the i-th partition's buffer when the first k items of the
\* batch have been emitted
LeftAfter(states, items, i, k) ==
    LET taken == Cardinality({n \in 1..k :
                    items[n].partitionKey = states[i].partition_key_range})
    IN  IF taken >= Len(states[i].queue) THEN <<>>
        ELSE SubSeq(states[i].queue, taken + 1, Len(states[i].queue))

\* the k-th item of the batch is the head of the buffer of a partition p whose
\* merge order is the lowest among the heads of the buffers not yet empty,
\* and lower than the head of every such partition before p
IsLowestHead(states, items, k) ==
    \E p \in 1..Len(states) :
        /\ LeftAfter(states, items, p, k - 1) # <<>>
        /\ items[k] = ToJson(Head(LeftAfter(states, items, p, k - 1)))
        /\ \A i \in 1..Len(states) :
            LeftAfter(states, items, i, k - 1) # <<>> =>
                /\ items[k].mergeOrder <= Head(LeftAfter(states, items, i, k - 1)).merge_order
                /\ i < p =>
                    items[k].mergeOrder < Head(LeftAfter(states, items, i, k - 1)).merge_order

\* C39: in one call of next_batch that begins with every partition started and
\* every buffer in nondecreasing merge order, the items are emitted in
\* nondecreasing merge order, each emitted item is the lowest head among the
\* buffers that are not empty (of equal heads the one of the partition
\* earliest in the partition map), and the call leaves every buffer empty
C39_OneBatchMergesSortedBuffers ==
    (NextBatchReturned /\ StartedAndSorted(prev_pipeline.partition_states)) =>
        /\ Nondecreasing([k \in 1..Len(Batch.items) |-> Batch.items[k].mergeOrder])
        /\ \A k \in 1..Len(Batch.items) :
                IsLowestHead(prev_pipeline.partition_states, Batch.items, k)
        /\ \A i \in 1..Len(partition_states) : partition_states[i].queue = <<>>

\* both buffers began with the merge order 1 and partition "1" holds a 2 as
\* well: the batch is 1 of "0", 1 of "1", 2 of "1"
C39_Witness ==
    /\ NextBatchReturned
    /\ StartedAndSorted(prev_pipeline.partition_states)
    /\ MergeOrdersOf(prev_pipeline.partition_states[1].queue) = <<1>>
    /\ MergeOrdersOf(prev_pipeline.partition_states[2].queue) = <<1, 2>>
    /\ prev_pipeline.partition_states[1].next_continuation.some
    /\ Batch.items = <<Document("0", 1), Document("1", 1), Document("1", 2)>>

\* without the order of the buffers the items are not in order: partition "0"
\* held 2 before 1
C39_WitnessUnsorted ==
    /\ NextBatchReturned
    /\ \A i \in 1..Len(partition_states) : prev_pipeline.partition_states[i].started
    /\ MergeOrdersOf(prev_pipeline.partition_states[1].queue) = <<2, 1>>
    /\ ~Nondecreasing([k \in 1..Len(Batch.items) |-> Batch.items[k].mergeOrder])

\* a text that is not empty and holds separators and whitespace only
Blank(token_text) ==
    /\ token_text # <<>>
    /\ \A i \in 1..Len(token_text) : token_text[i] \in {",", " "}

\* C40: set_session_token accepts a text that is not empty and is made of
\* separators and whitespace only, and changes no partition; for a container
\* without an entry the registry's call succeeds and makes an entry that holds
\* no token: container_count grows by one and the getters still return None
\* for that container
C40_BlankTextMakesEmptyEntry ==
    (session_call.op = "set_session_token" /\ Blank(session_call.token)) =>
        /\ session_result = Ok(<<>>)
        /\ session_call.container \in DOMAIN container_sessions
        /\ container_sessions[session_call.container]
                = StoreOf(prev_sessions, session_call.container)
        /\ session_call.container \notin DOMAIN prev_sessions =>
                /\ container_sessions[session_call.container] = EmptyMap
                /\ ContainerCount(container_sessions) = ContainerCount(prev_sessions) + 1
                /\ NothingReadable(container_sessions, session_call.container)

\* the registry knew collA only; " , " for collB made a second, empty entry
C40_Witness ==
    /\ session_call.op = "set_session_token"
    /\ session_call.token = <<" ", ",", " ">>
    /\ session_call.container = "collB"
    /\ DOMAIN prev_sessions = {"collA"}
    /\ DOMAIN prev_sessions["collA"] # {}
    /\ session_result.ok
    /\ ContainerCount(container_sessions) = 2
    /\ container_sessions["collB"] = EmptyMap

\* "," for collA, which holds tokens, changed none of them
C40_WitnessKnownContainer ==
    /\ session_call.op = "set_session_token"
    /\ session_call.token = <<",">>
    /\ session_call.container = "collA"
    /\ "collA" \in DOMAIN prev_sessions
    /\ session_result.ok
    /\ container_sessions["collA"] = prev_sessions["collA"]
    /\ DOMAIN container_sessions["collA"] = {Pk2, Pk10}

====
